---- MODULE Spec2Model ----
(***************************************************************************)
(* Model of the Wasm supervisor's run path: the HTTP handler               *)
(* run_module_function, make_history and the execution engine              *)
(* do_wasm_work (src/src/api/run.rs), the runtime call                     *)
(* WasmtimeRuntime::run_function (src/src/lib/wasmtime.rs), the request    *)
(* history lookup (src/src/api/results.rs) and deployment_delete           *)
(* (src/src/api/deployment.rs).                                            *)
(*                                                                         *)
(* A request is a record in the sequence reqs; its field pc is the         *)
(* position of its handler task.  Every await of the handler separates two *)
(* actions; the DEPLOYMENTS mutex is the variable lock.                    *)
(***************************************************************************)
EXTENDS Integers, Sequences, FiniteSets, TLC

VARIABLES
    reqs,          \* the requests received so far (client and chained ones)
    deployments,   \* DEPLOYMENTS: the ids of the registered deployments
    lock,          \* holder of the DEPLOYMENTS mutex (0: free)
    history,       \* REQUEST_HISTORY
    instructions,  \* the instructions table of deployment "d1"
    clock,         \* the wall clock read by Utc::now()
    call_headers,  \* the headers of the call data built for a next hop
    disk,          \* per deployment id: its JSON document and its two directories
    admin,         \* the create or delete request being served, or the last one
    unremovable,   \* the kinds of files the file system refuses to remove
    runtime,       \* a WasmtimeRuntime, the module files it loads and their times
    uploads,       \* the multipart uploads being staged by concurrent requests
    params,        \* the contents of the files of one module's params directory
    ids,           \* request entries and the ids init_request_id gave them
    multipart,     \* a MultipartMediaType and the mount list derived from it
    outputs,       \* an execution's output files, their URLs and the GETs on them
    workers,       \* the worker thread of each request, and the threads in lock()
    env,           \* the process environment and the register requests writing it
    zeroconf       \* the WebthingZeroconf and the thread advertising it

\* The variables of the run path and of the deployment handlers.
run_vars == <<reqs, deployments, lock, history, instructions, clock, call_headers, disk, admin, unremovable>>

\* The variables of the components that are exercised on their own.
lib_vars == <<runtime, uploads, params, ids, multipart, outputs, workers, env, zeroconf>>

\* Nothing is being loaded, staged, hashed, derived or served.
LibIdle ==
    /\ runtime = <<>>
    /\ uploads = <<>>
    /\ params = <<>>
    /\ ids = <<>>
    /\ multipart = <<>>
    /\ outputs = <<>>
    /\ workers = <<>>
    /\ env = <<>>
    /\ zeroconf = <<>>

vars == <<reqs, deployments, lock, history, instructions, clock, call_headers, disk, admin, unremovable, lib_vars>>

----------------------------------------------------------------------------
(* Bounds and constants *)

\* MAX_DEPLOYMENT_STEPS is read from the environment (spec.md section 6); the
\* crate's constants.rs under src/ does not carry it.  2 keeps chains short.
MAX_DEPLOYMENT_STEPS == 2

\* Hard cap on the length of reqs (requests the engine itself emits included).
MaxReqs == 8

\* Number of client requests served at the same time (SpecConc).
MaxClients == 2

----------------------------------------------------------------------------
(* Header values: an HTTP header value is a string, modelled as a sequence *)
(* of characters; the characters 0..9 are the decimal digits, NonDigit is  *)
(* any other visible character.                                            *)

NonDigit == 10

IsDigit(c) == c \in 0..9

\* usize::MAX on the 64-bit targets, as its decimal digits.
USIZE_MAX_DIGITS == <<1,8,4,4,6,7,4,4,0,7,3,7,0,9,5,5,1,6,1,5>>

\* 2^64, the smallest value that does not fit a usize.
TwoPow64Digits == <<1,8,4,4,6,7,4,4,0,7,3,7,0,9,5,5,1,6,1,6>>

RECURSIVE StripZeros(_)
StripZeros(s) ==
    IF Len(s) > 1 /\ Head(s) = 0 THEN StripZeros(Tail(s)) ELSE s

RECURSIVE LexGreater(_, _)
\* s > t for two digit sequences of the same length
LexGreater(s, t) ==
    IF Len(s) = 0 THEN FALSE
    ELSE IF Head(s) # Head(t) THEN Head(s) > Head(t)
    ELSE LexGreater(Tail(s), Tail(t))

RECURSIVE DigitsValue(_, _)
DigitsValue(s, acc) ==
    IF Len(s) = 0 THEN acc ELSE DigitsValue(Tail(s), acc * 10 + Head(s))

\* The value does not fit a usize (checked_mul / checked_add fail in from_str).
PosOverflow(s) ==
    LET t == StripZeros(s)
    IN  \/ Len(t) > Len(USIZE_MAX_DIGITS)
        \/ Len(t) = Len(USIZE_MAX_DIGITS) /\ LexGreater(t, USIZE_MAX_DIGITS)

\* str::parse::<usize>: Err on the empty string, on a character that is no
\* digit and on overflow; the decimal value otherwise.
ParseUsize(s) ==
    IF Len(s) = 0 \/ (\E k \in 1..Len(s) : ~IsDigit(s[k])) \/ PosOverflow(s)
    THEN [ok |-> FALSE, val |-> 0]
    ELSE [ok |-> TRUE, val |-> DigitsValue(s, 0)]

RECURSIVE UsizeToString(_)
\* usize::to_string: the decimal digits, no leading zero
UsizeToString(n) ==
    IF n < 10 THEN <<n>> ELSE Append(UsizeToString(n \div 10), n % 10)

\* HeaderName::from_bytes normalises the name to lower case.
LowerName(k) ==
    CASE k = "X-Chain-Step" -> "x-chain-step"
      [] k = "Content-Type" -> "content-type"
      [] OTHER -> k

\* A header map is a set of <<lower-case name, value>> pairs.
\* HeaderMap::insert: replaces every value stored under the name.
HeaderAppend(h, k, v) == h \cup {<<k, v>>}

HeaderInsert(h, k, v) == {p \in h : p[1] # k} \cup {<<k, v>>}

HeaderValues(h, k) == {p[2] : p \in {q \in h : q[1] = LowerName(k)}}

HasHeader(h, k) == HeaderValues(h, k) # {}

\* req.headers().get(k): one of the values stored under the name
HeaderGet(h, k) == CHOOSE v \in HeaderValues(h, k) : TRUE

\* run.rs 46-51: the step index of a request
StepIndexOf(h) ==
    IF ~HasHeader(h, "X-Chain-Step") THEN 0
    ELSE LET p == ParseUsize(HeaderGet(h, "X-Chain-Step"))
         IN  IF p.ok THEN p.val ELSE 0

----------------------------------------------------------------------------
(* The deployment "d1": two modules, one endpoint each.                    *)
(*   A.f  POST, required query argument param0 and required file img,      *)
(*        response application/json (integer)                              *)
(*   B.g  GET, no required input, response image/jpeg, OUTPUT mount img    *)
(*   A.h  a second function of module A, declared like B.g                 *)

DeploymentIds == {"d1"}

Modules == {"A", "B"}

Endpoints == {<<"A", "f">>, <<"B", "g">>, <<"A", "h">>}

EndpointOf(m, f) ==
    IF <<m, f>> = <<"A", "f">>
    THEN [method |-> "POST", args |-> {"param0"}, files |-> {"img"},
          media |-> "application/json", output_mounts |-> {}]
    ELSE [method |-> "GET", args |-> {}, files |-> {},
          media |-> "image/jpeg", output_mounts |-> {"img"}]

\* A next hop: an endpoint of this supervisor, or of another device.
None == [kind |-> "none"]

Self(m, f) == [kind |-> "self", mod |-> m, fn |-> f]

External == [kind |-> "external"]

\* The instructions tables a deployment document may carry: no next hop, a
\* two-hop chain, cycles of length two and one, a hop to another device.
InstructionTables ==
    { [e \in Endpoints |-> None],
      [e \in Endpoints |-> IF e = <<"A", "f">> THEN Self("B", "g") ELSE None],
      [e \in Endpoints |-> IF e = <<"A", "f">> THEN Self("B", "g") ELSE Self("A", "f")],
      [e \in Endpoints |-> IF e = <<"B", "g">> THEN Self("B", "g") ELSE None],
      [e \in Endpoints |-> IF e = <<"A", "f">> THEN External ELSE None] }

----------------------------------------------------------------------------
(* Values.  A JSON value is a tuple whose first element is its kind.       *)

\* serde_json::Value::Null / Option::None
Null == <<"null">>

JNum(n) == <<"num", n>>

JStr(s) == <<"str", s>>

\* A key an object does not have.
Absent == <<"absent">>

\* A JSON object, by the keys the engine reads: result, resultUrl, error.
JObj(result, resultUrl, error) == <<"obj", result, resultUrl, error>>

ObjResult(j) == j[2]

ObjResultUrl(j) == j[3]

\* A body that is no JSON document.
InvalidJson == <<"invalid">>

NoBody == <<"nobody">>

NoEntry == [rid |-> 0, request_id |-> "", result |-> Null, outputs |-> {}, success |-> FALSE]

\* Result<Value, String> of do_wasm_work; Pending while it runs.
Pending == [kind |-> "pending", val |-> Null]

Ok(v) == [kind |-> "ok", val |-> v]

Err(msg) == [kind |-> "err", val |-> JStr(msg)]

\* chrono to_rfc3339 (request_entry.rs 70): the instant as text, with the
\* colons of the time of day.
to_rfc3339(time) == "T00:00:" \o ToString(time)

\* RequestEntry::init_request_id (request_entry.rs 67-75): the hash input
\* "{deployment}:{module}:{function}:{time}"; SHA-256 and hex::encode are
\* taken to be injective on it.
RequestId(dep, m, f, time) == dep \o ":" \o m \o ":" \o f \o ":" \o to_rfc3339(time)

\* run.rs 203: the URL of the history entry
ResultUrl(request_id) == <<"url", "request-history", request_id>>

\* A result URL served by another device.
ExternalUrl == <<"url", "external", <<>>>>

\* The characters of the names the model uses.
Chars(name) ==
    CASE name = "d1" -> <<"d", "1">>
      [] name = "d2" -> <<"d", "2">>
      [] name = "A" -> <<"A">>
      [] name = "B" -> <<"B">>
      [] name = "img" -> <<"i", "m", "g">>
      [] name = "a b" -> <<"a", " ", "b">>
      [] name = "a/b" -> <<"a", "/", "b">>
      [] name = "a%20b" -> <<"a", "%", "2", "0", "b">>

\* The characters urlencoding::encode escapes (all but the unreserved ones),
\* among those of the names above, with the two hex digits of each.
Escaped == {" ", "/", "%"}

PercentCode(c) ==
    CASE c = " " -> <<"2", "0">>
      [] c = "/" -> <<"2", "F">>
      [] c = "%" -> <<"2", "5">>

\* urlencoding::encode (utils.rs 40-42)
urlencodeRaw(chars) == chars

RECURSIVE urlencode(_)
urlencode(chars) ==
    IF chars = <<>> THEN <<>>
    ELSE (IF Head(chars) \in Escaped THEN <<"%">> \o PercentCode(Head(chars))
          ELSE <<Head(chars)>>) \o urlencode(Tail(chars))

\* utils.rs 35-44: the URL of an output file; its third element is the path
\* after /module_results/.
make_output_url(dep, m, filename) ==
    <<"url", "module_results",
      urlencode(Chars(dep)) \o <<"/">> \o urlencode(Chars(m)) \o <<"/">>
          \o urlencode(Chars(filename))>>

NewRequest(parent, headers, dep, m, f, method, args, upload) ==
    [parent |-> parent, headers |-> headers, dep |-> dep, mod |-> m, fn |-> f,
     method |-> method, args |-> args, upload |-> upload,
     filename |-> FALSE, pc |-> "arrived", step_index |-> 0, resolved |-> FALSE,
     request_files |-> {}, entry |-> NoEntry, created |-> FALSE,
     prepared |-> FALSE, calls |-> 0, trapped |-> FALSE, raw_output |-> Null,
     interpreted |-> FALSE, next |-> None, out_headers |-> {}, out_files |-> {},
     sends |-> 0, child |-> 0, chained |-> NoBody, fetches |-> 0, fetched |-> NoBody,
     fault |-> "none",
     ret |-> Pending, recorded |-> FALSE, status |-> 0, body |-> NoBody]

----------------------------------------------------------------------------
(* Inputs *)

\* X-Chain-Step header values a client may send.
ClientStepValues ==
    { <<0>>, UsizeToString(MAX_DEPLOYMENT_STEPS), UsizeToString(MAX_DEPLOYMENT_STEPS + 1),
      <<NonDigit>>, TwoPow64Digits }

ClientHeaders == {{}} \cup {{<<"x-chain-step", v>>} : v \in ClientStepValues}

\* deployment / module / function of a client request: the two endpoints, a
\* function without endpoint, a module and a deployment that do not exist.
ClientTargets ==
    { <<"d1", "A", "f">>, <<"d1", "B", "g">>, <<"d1", "A", "g">>,
      <<"d1", "Z", "f">>, <<"d2", "A", "f">> }

\* Values a Wasm function returns.
WasmValues == {7}

\* Headers of the call data built for the next hop.
CallDataHeaders ==
    { {}, {<<"Content-Type", <<NonDigit>>>>, <<"X-Chain-Step", <<0>>>>} }

\* What another device answers to a chained request, and to the fetch of the
\* result URL it names.
ExternalResponses ==
    { InvalidJson, JObj(JNum(5), Absent, Absent), JObj(Absent, ExternalUrl, Absent) }

ExternalDocuments ==
    { InvalidJson, JObj(JNum(9), Absent, Absent), JObj(Absent, Absent, JStr("e")),
      JObj(JNum(9), ExternalUrl, Absent) }

\* The deployment ids a create or delete request may name.
AllIds == {"d1", "d2"}

\* The files of a deployment: the document instance/deployments/{id}.json
\* (absent, partly written, complete) and the directories modules/{id} and
\* params/{id}.
NoFiles == [doc |-> "absent", modules |-> FALSE, params |-> FALSE]

AllFiles == [doc |-> "complete", modules |-> TRUE, params |-> TRUE]

FileKinds == {"doc", "modules", "params"}

\* No create or delete request was received yet.
Idle == [op |-> "none", id |-> "", pc |-> "idle", status |-> 0, fresh |-> FALSE]

\* The registry holds the deployments of DeploymentIds, created earlier; the
\* file system removes what it is asked to.
Init ==
    /\ reqs = <<>>
    /\ deployments = DeploymentIds
    /\ lock = 0
    /\ history = <<>>
    /\ instructions \in InstructionTables
    /\ clock = 0
    /\ call_headers \in CallDataHeaders
    /\ disk = [d \in AllIds |-> IF d \in DeploymentIds THEN AllFiles ELSE NoFiles]
    /\ admin = Idle
    /\ unremovable = {}
    /\ LibIdle

Reqs == 1..Len(reqs)

SetReq(i, r) == [reqs EXCEPT ![i] = r]

\* The requests a client may send.  At the maximum step every target,
\* argument set and method; without the header the same, except that B.g,
\* which requires nothing, is requested in one form (GET, no argument); the
\* other header values with the complete request of A.f.  The payload of a
\* GET request is never read (run.rs 123-124).  file: the route with a
\* filename, tried on one endpoint.
ClientRequests ==
    { c \in [h : ClientHeaders, t : ClientTargets, a : SUBSET {"param0"},
             u : SUBSET {"img"}, method : {"GET", "POST"}, file : BOOLEAN] :
        /\ c.method = "GET" => c.u = {}
        /\ c.file => c.t = <<"d1", "B", "g">> /\ c.method = "GET" /\ c.a = {}
        /\ \/ c.h = {<<"x-chain-step", UsizeToString(MAX_DEPLOYMENT_STEPS)>>}
           \/ /\ c.h = {}
              /\ c.t = <<"d1", "B", "g">> => c.method = "GET" /\ c.a = {}
           \/ /\ c.t = <<"d1", "A", "f">> /\ c.method = "POST"
              /\ c.a = {"param0"} /\ c.u = {"img"} }

\* A client sends a run request (the route without filename); the requests
\* that follow are the ones the engine chains to it.
ClientRequest ==
    /\ reqs = <<>>
    /\ \E c \in ClientRequests :
          reqs' = Append(reqs, [NewRequest(0, c.h, c.t[1], c.t[2], c.t[3], c.method, c.a, c.u)
                                    EXCEPT !.filename = c.file])
    /\ UNCHANGED <<deployments, lock, history, instructions, clock, call_headers, disk, admin, unremovable, lib_vars>>

\* run.rs 55: the hop guard
ExceedsMaxAtMax(step_index) == step_index >= MAX_DEPLOYMENT_STEPS

ExceedsMaxNever(step_index) == FALSE

ExceedsMax(step_index) == step_index > MAX_DEPLOYMENT_STEPS

\* run.rs 39-60: read X-Chain-Step and stop the request above the maximum.
StepGuard(i) ==
    /\ reqs[i].pc = "arrived"
    /\ LET step == StepIndexOf(reqs[i].headers)
       IN  IF ExceedsMax(step)
           THEN reqs' = SetReq(i, [reqs[i] EXCEPT !.step_index = step, !.pc = "done",
                                       !.status = 400,
                                       !.body = JObj(Absent, Absent, JStr("X-Chain-Step exceeds"))])
           ELSE reqs' = SetReq(i, [reqs[i] EXCEPT !.step_index = step,
                                       !.pc = IF reqs[i].filename THEN "serve" ELSE "lookup"])
    /\ UNCHANGED <<deployments, lock, history, instructions, clock, call_headers, disk, admin, unremovable, lib_vars>>

\* run.rs 62-92: with a filename in the path the file is served from the
\* params directory, or 404 is answered; nothing is executed.
ServeFile(i) ==
    /\ reqs[i].pc = "serve"
    /\ \E found \in BOOLEAN :
          reqs' = SetReq(i, [reqs[i] EXCEPT !.pc = "done",
                     !.status = IF found THEN 200 ELSE 404,
                     !.body = IF found THEN InvalidJson
                              ELSE JObj(Absent, Absent, JStr("File not found"))])
    /\ UNCHANGED <<deployments, lock, history, instructions, clock, call_headers, disk, admin, unremovable, lib_vars>>

\* run.rs 95-113: the deployment and its module must exist; the DEPLOYMENTS
\* mutex is taken and released within the step.
CheckDeployment(i) ==
    /\ reqs[i].pc = "lookup"
    /\ lock = 0
    /\ IF reqs[i].dep \notin deployments
       THEN reqs' = SetReq(i, [reqs[i] EXCEPT !.pc = "done", !.status = 404,
                                   !.resolved = TRUE,
                                   !.body = JObj(Absent, Absent, JStr("Deployment not found"))])
       ELSE IF reqs[i].mod \notin Modules
       THEN reqs' = SetReq(i, [reqs[i] EXCEPT !.pc = "done", !.status = 404,
                                   !.resolved = TRUE,
                                   !.body = JObj(Absent, Absent, JStr("Module not found in deployment"))])
       ELSE reqs' = SetReq(i, [reqs[i] EXCEPT !.pc = "staging", !.resolved = TRUE])
    /\ UNCHANGED <<deployments, lock, history, instructions, clock, call_headers, disk, admin, unremovable, lib_vars>>

\* run.rs 134-137: create_dir_all of the directory the upload is saved in,
\* below params/{deployment}; `made`: the directory was created.
StageDir(dk, d, made) ==
    IF made /\ d \in DOMAIN dk THEN [dk EXCEPT ![d].params = TRUE] ELSE dk

\* run.rs 122-171: a POST request's multipart fields are saved below the
\* params directory (File::create or write_all may fail: 500), then the
\* RequestEntry is built; its id hashes the time read by Utc::now(),
\* which differs from one request of a chain to the next.
StageFiles(i) ==
    /\ reqs[i].pc = "staging"
    /\ \/ /\ reqs[i].method = "POST" /\ reqs[i].upload # {}
          /\ reqs' = SetReq(i, [reqs[i] EXCEPT !.pc = "done", !.status = 500,
                                    !.body = JObj(Absent, Absent, JStr("Failed to save file"))])
          /\ \E made \in BOOLEAN : disk' = StageDir(disk, reqs[i].dep, made)
          /\ UNCHANGED clock
       \/ LET t == clock IN
          /\ clock' = clock + 1
          /\ disk' = StageDir(disk, reqs[i].dep,
                              reqs[i].method = "POST" /\ reqs[i].upload # {})
          /\ reqs' = SetReq(i, [reqs[i] EXCEPT
                 !.pc = "engine", !.created = TRUE,
                 !.request_files = IF reqs[i].method = "POST" THEN reqs[i].upload ELSE {},
                 !.entry = [NoEntry EXCEPT !.rid = i,
                     !.request_id = RequestId(reqs[i].dep, reqs[i].mod, reqs[i].fn, t)]])
    /\ UNCHANGED <<deployments, lock, history, instructions, call_headers, admin, unremovable, lib_vars>>

----------------------------------------------------------------------------
(* The execution engine: do_wasm_work, run.rs 281-523 *)

\* Deployment::prepare_for_running (spec.md 4.D): the endpoint is looked up
\* and every parameter it declares as required must be among the request's
\* arguments or uploaded files.
PrepareForRunning(m, f, args, files) ==
    IF <<m, f>> \notin Endpoints THEN Err("endpoint not found")
    ELSE IF ~(EndpointOf(m, f).args \subseteq args /\ EndpointOf(m, f).files \subseteq files)
    THEN Err("ArgumentMismatch")
    ELSE Ok(Null)

\* get_return_types(..).len() (wasmtime.rs 310-313): both functions return one i32.
ReturnCount(m, f) == 1

\* WasmtimeRuntime::run_function (wasmtime.rs 326-346): the result buffer
\* starts as `returns` zeros; the outcome of the call is dropped (let _ =),
\* so after a trap the buffer is returned as it was.  `out` is the function's
\* behaviour: whether it traps and the values it returns.
run_functionAll(out, returns) == out.vals

run_function(out, returns) ==
    [k \in 1..returns |->
        IF ~out.trap /\ k <= Len(out.vals) THEN out.vals[k] ELSE 0]

\* run.rs 334-340: the first value as JSON, Null if there is none
RawOutput(output_vals) ==
    IF Len(output_vals) > 0 THEN JNum(output_vals[1]) ELSE Null

FILE_TYPES ==
    {"image/png", "image/jpeg", "image/jpg", "application/octet-stream",
     "application/wasm", "text/html", "text/javascript"}

\* EndpointArgs::Str, the variant of run.rs 402 that holds a primitive
EndpointArgsStr(s) == <<"Str", s>>

\* Deployment::parse_endpoint_result (spec.md 4.D): a JSON response passes
\* the primitive through, as the text of an EndpointArgs::Str; a file
\* response lists the files found under the OUTPUT mounts (present: the
\* mounted files the function left on disk) and has no value.
parse_endpoint_result(raw_output, endpoint, present) ==
    IF endpoint.media \in FILE_TYPES
    THEN [value |-> Null, files |-> endpoint.output_mounts \cap present]
    ELSE [value |-> IF raw_output = Null THEN Null
                    ELSE EndpointArgsStr(ToString(raw_output[2])),
          files |-> {}]

\* Deployment::next_target_with_index (spec.md 4.D): the `to` endpoint of
\* the instructions table.
next_target_with_index(m, f, step_index) == instructions[<<m, f>>]

\* run.rs 441: usize::saturating_add(1); the step guard keeps step_index at
\* most MAX_DEPLOYMENT_STEPS, far from usize::MAX.
NextIdx(step_index) == step_index + 1

\* run.rs 431-445: the headers of the chained request: the call data's
\* headers, names normalised, then x-chain-step set to the next index.
CopyHeaders(ch) == {<<LowerName(p[1]), p[2]>> : p \in ch}

ChainHeadersBroken(ch, step_index) ==
    HeaderAppend(CopyHeaders(ch), "x-chain-step", UsizeToString(NextIdx(step_index)))

ChainHeaders(ch, step_index) ==
    HeaderInsert(CopyHeaders(ch), "x-chain-step", UsizeToString(NextIdx(step_index)))

\* run.rs 282: DEPLOYMENTS.lock(): the request becomes the holder
LockDeploymentsNot(i) == 0

LockDeployments(i) == i

\* run.rs 460: drop(deployments) before the chained request is built
KeepDeployments(holder) == holder

DropDeployments(holder) == 0

\* run.rs 282-284: take the DEPLOYMENTS mutex and look the deployment up.
\* An Err return drops the guard.
DoWasmLookup(i) ==
    /\ reqs[i].pc = "engine"
    /\ lock = 0
    /\ IF reqs[i].dep \notin deployments
       THEN /\ reqs' = SetReq(i, [reqs[i] EXCEPT !.pc = "record",
                                      !.ret = Err("Deployment not found")])
            /\ UNCHANGED lock
       ELSE /\ reqs' = SetReq(i, [reqs[i] EXCEPT !.pc = "prepare"])
            /\ lock' = LockDeployments(i)
    /\ UNCHANGED <<deployments, history, instructions, clock, call_headers, disk, admin, unremovable, lib_vars>>

\* run.rs 308: `?` returns the error of prepare_for_running
AfterPrepareUnchecked(p) == "run"

AfterPrepare(p) == IF p.kind = "err" THEN "record" ELSE "run"

\* run.rs 298-308: prepare_for_running(..).await?
Prepare(i) ==
    /\ reqs[i].pc = "prepare"
    /\ LET r == reqs[i]
           p == PrepareForRunning(r.mod, r.fn, r.args, r.request_files)
           pc == AfterPrepare(p)
       IN  /\ reqs' = SetReq(i, [r EXCEPT !.pc = pc, !.prepared = (p.kind = "ok"),
                                     !.ret = IF pc = "record" THEN p ELSE Pending])
           /\ lock' = IF pc = "record" THEN 0 ELSE lock
    /\ UNCHANGED <<deployments, history, instructions, clock, call_headers, disk, admin, unremovable, lib_vars>>

\* run.rs 326-334: whatever the call did, the engine goes on to read the
\* output; it does not call again.
AfterRunRetry(trap) == IF trap THEN "run" ELSE "interpret"

AfterRun(trap) == "interpret"

\* run.rs 323-340: the function is called once; a trap is not told apart
\* from a return.
RunFunction(i) ==
    /\ reqs[i].pc = "run"
    /\ \E trap \in BOOLEAN, v \in WasmValues :
          /\ LET r == reqs[i]
                 vals == run_function([trap |-> trap, vals |-> <<v>>],
                                      ReturnCount(r.mod, r.fn))
             IN  reqs' = SetReq(i, [r EXCEPT !.pc = AfterRun(trap), !.calls = @ + 1,
                                        !.trapped = trap, !.raw_output = RawOutput(vals)])
    /\ UNCHANGED <<deployments, lock, history, instructions, clock, call_headers, disk, admin, unremovable, lib_vars>>

\* run.rs 401-405: the parsed value as the entry's result (Str to
\* Value::String, None stays None)
EntryResult(value) == IF value = Null THEN Null ELSE JStr(value[2])

\* run.rs 354-460: interpret the output, fill the entry, decide the next hop;
\* without one the result is returned, with one the output files are opened,
\* the headers built and the DEPLOYMENTS mutex dropped.
Interpret(i) ==
    /\ reqs[i].pc = "interpret"
    /\ LET r == reqs[i]
           ep == EndpointOf(r.mod, r.fn)
       IN  \E present \in SUBSET ep.output_mounts, open_ok \in BOOLEAN :
           LET parsed == parse_endpoint_result(r.raw_output, ep, present)
               entry == [r.entry EXCEPT
                           !.outputs = {make_output_url(r.dep, r.mod, n) : n \in parsed.files},
                           !.result = EntryResult(parsed.value)]
               next == next_target_with_index(r.mod, r.fn, r.step_index)
               done == [r EXCEPT !.entry = entry, !.interpreted = TRUE, !.next = next]
           IN  /\ lock' = IF next # None /\ open_ok THEN DropDeployments(lock) ELSE 0
               /\ IF next = None
                  THEN /\ open_ok
                       /\ reqs' = SetReq(i, [done EXCEPT !.pc = "record",
                                  !.ret = Ok(JObj(entry.result, Absent, Absent))])
                  ELSE IF ~open_ok
                  THEN /\ parsed.files # {}
                       /\ reqs' = SetReq(i, [done EXCEPT !.pc = "record",
                                  !.ret = Err("Failed to open file for subcall")])
                  ELSE reqs' = SetReq(i, [done EXCEPT !.pc = "send",
                                  !.out_headers = ChainHeaders(call_headers, r.step_index),
                                  !.out_files = parsed.files])
    /\ UNCHANGED <<deployments, history, instructions, clock, call_headers, disk, admin, unremovable, lib_vars>>

\* run.rs 462-487: build and send the chained request.  A hop to an endpoint
\* of this supervisor arrives as a new request; its query arguments come
\* with the next endpoint's URL.
SendChained(i) ==
    /\ reqs[i].pc = "send"
    /\ LET r == reqs[i]
       IN  \/ reqs' = SetReq(i, [r EXCEPT !.pc = "record", !.fault = "send",
                                     !.ret = Err("Failed to send chained request")])
           \/ /\ r.next.kind = "self"
              /\ Len(reqs) < MaxReqs
              /\ \E a \in SUBSET EndpointOf(r.next.mod, r.next.fn).args :
                    reqs' = Append(
                        SetReq(i, [r EXCEPT !.pc = "await", !.sends = @ + 1,
                                       !.child = Len(reqs) + 1]),
                        NewRequest(i, r.out_headers, r.dep, r.next.mod, r.next.fn,
                                   EndpointOf(r.next.mod, r.next.fn).method, a, r.out_files))
           \/ /\ r.next.kind = "external"
              /\ reqs' = SetReq(i, [r EXCEPT !.pc = "await", !.sends = @ + 1])
    /\ UNCHANGED <<deployments, lock, history, instructions, clock, call_headers, disk, admin, unremovable, lib_vars>>

\* run.rs 489-519: the chained response must be JSON; with a resultUrl the
\* engine goes on to fetch it, otherwise the response is the result.
ReceivedUnparsed(i, resp) ==
    SetReq(i, [reqs[i] EXCEPT !.pc = "record", !.chained = resp,
                              !.entry.success = TRUE, !.ret = Ok(resp)])

Received(i, resp) ==
    LET r == reqs[i]
    IN  IF resp = InvalidJson
        THEN SetReq(i, [r EXCEPT !.pc = "record", !.chained = resp,
                            !.ret = Err("Invalid response JSON")])
        ELSE IF ObjResultUrl(resp) # Absent
        THEN SetReq(i, [r EXCEPT !.pc = "fetch", !.chained = resp])
        ELSE SetReq(i, [r EXCEPT !.pc = "record", !.chained = resp,
                            !.entry.success = TRUE, !.ret = Ok(resp)])

ReceiveChained(i) ==
    /\ reqs[i].pc = "await"
    /\ IF reqs[i].child = 0
       THEN \E resp \in ExternalResponses : reqs' = Received(i, resp)
       ELSE /\ reqs[reqs[i].child].pc = "done"
            /\ reqs' = Received(i, reqs[reqs[i].child].body)
    /\ UNCHANGED <<deployments, lock, history, instructions, clock, call_headers, disk, admin, unremovable, lib_vars>>

\* results.rs 55-82: GET /request-history/{id}: the first entry with the id,
\* 200 or 500 by its success flag; 404 without one.  GET /request-history
\* (the empty id): all entries, 200.  `listed` names the entries of the body.
request_history_listAll200(id) ==
    [status |-> 200, body |-> JObj(Absent, Absent, Absent), rid |-> 0,
     listed |-> [k \in 1..Len(history) |-> history[k].rid]]

request_history_list(id) ==
    IF id = ""
    THEN [status |-> 200, body |-> JObj(Absent, Absent, Absent), rid |-> 0,
          listed |-> [k \in 1..Len(history) |-> history[k].rid]]
    ELSE IF \E k \in 1..Len(history) : history[k].request_id = id
    THEN LET k == CHOOSE k \in 1..Len(history) :
                     /\ history[k].request_id = id
                     /\ \A j \in 1..(k - 1) : history[j].request_id # id
         IN  [status |-> IF history[k].success THEN 200 ELSE 500,
              body |-> JObj(history[k].result, Absent, Absent), rid |-> history[k].rid,
              listed |-> <<history[k].rid>>]
    ELSE [status |-> 404, body |-> JObj(Absent, Absent, JStr("No request with that ID")),
          rid |-> 0, listed |-> <<>>]

\* run.rs 506-510: the `result` of the fetched document, or all of it
FinalJsonWhole(fetched_json) == fetched_json

FinalJson(fetched_json) ==
    IF ObjResult(fetched_json) # Absent THEN ObjResult(fetched_json) ELSE fetched_json

\* run.rs 495-515: fetch the resultUrl of the chained response, once.
FetchedFollowing(i, doc) ==
    LET r == reqs[i]
    IN  IF doc = InvalidJson
        THEN SetReq(i, [r EXCEPT !.pc = "record", !.fetches = @ + 1, !.fetched = doc,
                            !.ret = Err("Invalid JSON from resultUrl")])
        ELSE IF ObjResultUrl(doc) # Absent
        THEN SetReq(i, [r EXCEPT !.pc = "fetch", !.fetches = @ + 1, !.fetched = doc,
                            !.chained = doc])
        ELSE SetReq(i, [r EXCEPT !.pc = "record", !.fetches = @ + 1, !.fetched = doc,
                            !.entry.success = TRUE, !.ret = Ok(FinalJson(doc))])

Fetched(i, doc) ==
    LET r == reqs[i]
    IN  IF doc = InvalidJson
        THEN SetReq(i, [r EXCEPT !.pc = "record", !.fetches = @ + 1, !.fetched = doc,
                            !.ret = Err("Invalid JSON from resultUrl")])
        ELSE SetReq(i, [r EXCEPT !.pc = "record", !.fetches = @ + 1, !.fetched = doc,
                            !.entry.success = TRUE, !.ret = Ok(FinalJson(doc))])

FetchResult(i) ==
    /\ reqs[i].pc = "fetch"
    /\ LET r == reqs[i]
           url == ObjResultUrl(r.chained)
       IN  \/ reqs' = SetReq(i, [r EXCEPT !.pc = "record", !.fetches = @ + 1,
                                     !.fault = "fetch",
                                     !.ret = Err("Failed to fetch resultUrl")])
           \/ /\ url[2] = "request-history"
              /\ reqs' = Fetched(i, request_history_list(url[3]).body)
           \/ /\ url[2] = "external"
              /\ \E doc \in ExternalDocuments : reqs' = Fetched(i, doc)
    /\ UNCHANGED <<deployments, lock, history, instructions, clock, call_headers, disk, admin, unremovable, lib_vars>>

----------------------------------------------------------------------------
(* make_history and the handler's response *)

\* run.rs 246-266: the entry as it is recorded
HistoryEntryAlwaysSuccess(entry, ret) == [entry EXCEPT !.success = TRUE]

HistoryEntryWithFinal(entry, ret) ==
    IF ret.kind = "ok" THEN [entry EXCEPT !.result = ret.val, !.success = TRUE]
    ELSE [entry EXCEPT !.result = ret.val, !.success = FALSE]

HistoryEntry(entry, ret) ==
    IF ret.kind = "ok" THEN [entry EXCEPT !.success = TRUE]
    ELSE [entry EXCEPT !.result = ret.val, !.success = FALSE]

\* run.rs 268: REQUEST_HISTORY.lock().push(entry.clone())
PushSuccessOnly(h, entry) == IF entry.success THEN Append(h, entry) ELSE h

PushFront(h, entry) == <<entry>> \o h

PushEntry(h, entry) == Append(h, entry)

\* run.rs 243-270: record the outcome of do_wasm_work in REQUEST_HISTORY.
MakeHistory(i) ==
    /\ reqs[i].pc = "record"
    /\ LET entry == HistoryEntry(reqs[i].entry, reqs[i].ret)
       IN  /\ history' = PushEntry(history, entry)
           /\ reqs' = SetReq(i, [reqs[i] EXCEPT !.pc = "respond", !.entry = entry,
                                     !.recorded = TRUE])
    /\ UNCHANGED <<deployments, lock, instructions, clock, call_headers, disk, admin, unremovable, lib_vars>>

\* run.rs 203-208: the response after make_history
RunResponseByOutcome(entry, ret) ==
    [status |-> IF ret.kind = "ok" THEN 200 ELSE 500,
     body |-> JObj(IF ret.kind = "ok" THEN ret.val ELSE Absent,
                   ResultUrl(entry.request_id), Absent)]

RunResponse(entry, ret) ==
    [status |-> 200,
     body |-> JObj(IF ret.kind = "ok" THEN ret.val ELSE Absent,
                   ResultUrl(entry.request_id), Absent)]

\* run.rs 190-208: answer with the link to the history entry.
Respond(i) ==
    /\ reqs[i].pc = "respond"
    /\ LET resp == RunResponse(reqs[i].entry, reqs[i].ret)
       IN  reqs' = SetReq(i, [reqs[i] EXCEPT !.pc = "done", !.status = resp.status,
                                  !.body = resp.body])
    /\ UNCHANGED <<deployments, lock, history, instructions, clock, call_headers, disk, admin, unremovable, lib_vars>>

\* The response of a create or delete request.
AdminDone(op, d, status, fresh) ==
    [op |-> op, id |-> d, pc |-> "done", status |-> status, fresh |-> fresh]

\* deployment.rs 341: deps.remove(&deployment_id).is_some()
IsRegisteredAlways(deps, d) == TRUE

IsRegistered(deps, d) == d \in deps

\* deployment.rs 343-415: remove_file of the document, remove_dir_all of the
\* two directories; a failure is logged and nothing else.
RemoveFiles(files, failing) ==
    [doc |-> IF "doc" \in failing THEN files.doc ELSE "absent",
     modules |-> files.modules /\ "modules" \in failing,
     params |-> files.params /\ "params" \in failing]

\* deployment.rs 330-438: remove the deployment from the registry and its
\* files from the disk, 200; 404 and nothing else for an unknown id.  The
\* DEPLOYMENTS mutex is held throughout.
DeploymentDelete(d) ==
    /\ lock = 0
    /\ admin.pc \in {"idle", "done"}
    /\ IF IsRegistered(deployments, d)
       THEN /\ deployments' = deployments \ {d}
            /\ disk' = [disk EXCEPT ![d] = RemoveFiles(disk[d], unremovable)]
            /\ admin' = AdminDone("delete", d, 200, FALSE)
       ELSE /\ UNCHANGED <<deployments, disk>>
            /\ admin' = AdminDone("delete", d, 404, FALSE)
    /\ UNCHANGED <<reqs, lock, history, instructions, clock, call_headers, unremovable, lib_vars>>

Next ==
    \/ ClientRequest
    \/ \E i \in Reqs : StepGuard(i)
    \/ \E i \in Reqs : ServeFile(i)
    \/ \E i \in Reqs : CheckDeployment(i)
    \/ \E i \in Reqs : StageFiles(i)
    \/ \E i \in Reqs : DoWasmLookup(i)
    \/ \E i \in Reqs : Prepare(i)
    \/ \E i \in Reqs : RunFunction(i)
    \/ \E i \in Reqs : Interpret(i)
    \/ \E i \in Reqs : SendChained(i)
    \/ \E i \in Reqs : ReceiveChained(i)
    \/ \E i \in Reqs : FetchResult(i)
    \/ \E i \in Reqs : MakeHistory(i)
    \/ \E i \in Reqs : Respond(i)
    \/ \E d \in DeploymentIds : DeploymentDelete(d)

Spec == Init /\ [][Next]_vars

----------------------------------------------------------------------------
(* Concurrent clients.  Several client requests are in progress at once,   *)
(* for the two functions of module A; the deployment has no next hop, so   *)
(* the engine's chaining steps and the file route never apply.             *)

ConcurrentRequests ==
    { [h |-> {}, t |-> <<"d1", "A", "f">>, a |-> {"param0"}, u |-> {"img"}, method |-> "POST"],
      [h |-> {}, t |-> <<"d1", "A", "h">>, a |-> {}, u |-> {}, method |-> "GET"] }

InitConc ==
    /\ Init
    /\ instructions = [e \in Endpoints |-> None]
    /\ call_headers = {}

\* A client sends a run request while others are being served.
ConcurrentClientRequest ==
    /\ Len(reqs) < MaxClients
    /\ \E c \in ConcurrentRequests :
          reqs' = Append(reqs, NewRequest(0, c.h, c.t[1], c.t[2], c.t[3], c.method, c.a, c.u))
    /\ UNCHANGED <<deployments, lock, history, instructions, clock, call_headers, disk, admin, unremovable, lib_vars>>

NextConc ==
    \/ ConcurrentClientRequest
    \/ \E i \in Reqs : StepGuard(i)
    \/ \E i \in Reqs : CheckDeployment(i)
    \/ \E i \in Reqs : StageFiles(i)
    \/ \E i \in Reqs : DoWasmLookup(i)
    \/ \E i \in Reqs : Prepare(i)
    \/ \E i \in Reqs : RunFunction(i)
    \/ \E i \in Reqs : Interpret(i)
    \/ \E i \in Reqs : MakeHistory(i)
    \/ \E i \in Reqs : Respond(i)
    \/ \E d \in DeploymentIds : DeploymentDelete(d)

SpecConc == InitConc /\ [][NextConc]_vars

----------------------------------------------------------------------------
(* The life of a deployment: deployment_create and deployment_delete        *)
(* (src/src/api/deployment.rs), save_deployment_to_disk (utils.rs).  One    *)
(* create or delete request is served at a time; a create request is       *)
(* followed through the points at which its effects become visible.        *)

\* deployment.rs 26-47: POST /deploy; a payload without deploymentId or
\* without modules is answered 400 at once.
DeploymentCreateRequest(d) ==
    /\ admin.pc \in {"idle", "done"}
    /\ LET fresh == d \notin deployments /\ disk[d] = NoFiles
       IN  \E valid \in BOOLEAN :
               admin' = IF valid
                        THEN [op |-> "create", id |-> d, pc |-> "dirs", status |-> 0,
                              fresh |-> fresh]
                        ELSE AdminDone("create", d, 400, fresh)
    /\ UNCHANGED <<reqs, deployments, lock, history, instructions, clock, call_headers,
                   disk, unremovable, lib_vars>>

\* deployment.rs 52-63: create_dir_all of modules/{id}, then of params/{id};
\* the first failure is answered 500.  made: the directories created.
CreateDirs ==
    /\ admin.op = "create" /\ admin.pc = "dirs"
    /\ \E made \in 0..2 :
          /\ disk' = [disk EXCEPT ![admin.id].modules = @ \/ made >= 1,
                                  ![admin.id].params = @ \/ made = 2]
          /\ admin' = IF made = 2 THEN [admin EXCEPT !.pc = "modules"]
                       ELSE AdminDone("create", admin.id, 500, admin.fresh)
    /\ UNCHANGED <<reqs, deployments, lock, history, instructions, clock, call_headers,
                   unremovable, lib_vars>>

\* deployment.rs 65-259: the modules are downloaded and written below
\* modules/{id} and params/{id}; a module that failed is answered 500 after
\* the loop (208-213), a runtime that does not start 500 (225-230), an
\* endpoint that does not parse 400 (246-250).
LoadOutcomes == {"ok", "module failed", "runtime failed", "endpoint invalid"}

LoadModules ==
    /\ admin.op = "create" /\ admin.pc = "modules"
    /\ \E outcome \in LoadOutcomes :
          admin' = CASE outcome = "ok" -> [admin EXCEPT !.pc = "save"]
                     [] outcome = "endpoint invalid" ->
                            AdminDone("create", admin.id, 400, admin.fresh)
                     [] OTHER -> AdminDone("create", admin.id, 500, admin.fresh)
    /\ UNCHANGED <<reqs, deployments, lock, history, instructions, clock, call_headers,
                   disk, unremovable, lib_vars>>

\* utils.rs 48-58 (called at deployment.rs 282): File::create of the document
\* path: the file exists and is empty from here on; a failure is answered 500.
SaveOpen ==
    /\ admin.op = "create" /\ admin.pc = "save"
    /\ \E ok \in BOOLEAN :
          IF ok
          THEN /\ disk' = [disk EXCEPT ![admin.id].doc = "partial"]
               /\ admin' = [admin EXCEPT !.pc = "write"]
          ELSE /\ UNCHANGED disk
               /\ admin' = AdminDone("create", admin.id, 500, admin.fresh)
    /\ UNCHANGED <<reqs, deployments, lock, history, instructions, clock, call_headers,
                   unremovable, lib_vars>>

\* utils.rs 60-65: serde_json::to_writer_pretty into the open file; a failure
\* (deployment.rs 282-294: 500) leaves what was written.
SaveWrite ==
    /\ admin.op = "create" /\ admin.pc = "write"
    /\ \E ok \in BOOLEAN :
          IF ok
          THEN /\ disk' = [disk EXCEPT ![admin.id].doc = "complete"]
               /\ admin' = [admin EXCEPT !.pc = "insert"]
          ELSE /\ UNCHANGED disk
               /\ admin' = AdminDone("create", admin.id, 500, admin.fresh)
    /\ UNCHANGED <<reqs, deployments, lock, history, instructions, clock, call_headers,
                   unremovable, lib_vars>>

\* deployment.rs 296-303: DEPLOYMENTS.lock().insert(..), 200
CreateInsert ==
    /\ admin.op = "create" /\ admin.pc = "insert"
    /\ lock = 0
    /\ deployments' = deployments \cup {admin.id}
    /\ admin' = AdminDone("create", admin.id, 200, admin.fresh)
    /\ UNCHANGED <<reqs, lock, history, instructions, clock, call_headers, disk,
                   unremovable, lib_vars>>

\* As Init, on a file system that may refuse to remove some kinds of files.
InitDeploy ==
    /\ reqs = <<>>
    /\ deployments = DeploymentIds
    /\ lock = 0
    /\ history = <<>>
    /\ instructions = [e \in Endpoints |-> None]
    /\ clock = 0
    /\ call_headers = {}
    /\ disk = [d \in AllIds |-> IF d \in DeploymentIds THEN AllFiles ELSE NoFiles]
    /\ admin = Idle
    /\ unremovable \in SUBSET FileKinds
    /\ LibIdle

NextDeploy ==
    \/ \E d \in AllIds : DeploymentCreateRequest(d)
    \/ CreateDirs
    \/ LoadModules
    \/ SaveOpen
    \/ SaveWrite
    \/ CreateInsert
    \/ \E d \in AllIds : DeploymentDelete(d)

SpecDeploy == InitDeploy /\ [][NextDeploy]_vars

----------------------------------------------------------------------------
(* Request ids: RequestEntry::new on its own *)

MaxTime == 1

MaxEntries == 2

\* Deployment, module and function names as they come from the deployment
\* document and the request path; a name may hold a colon.
IdNames == {"a", "a:a"}

\* The run path and the deployment handlers are at rest.
RunIdle ==
    /\ reqs = <<>>
    /\ deployments = DeploymentIds
    /\ lock = 0
    /\ history = <<>>
    /\ instructions = [e \in Endpoints |-> None]
    /\ clock = 0
    /\ call_headers = {}
    /\ disk = [d \in AllIds |-> IF d \in DeploymentIds THEN AllFiles ELSE NoFiles]
    /\ admin = Idle
    /\ unremovable = {}

\* No history query was answered yet.
NotAsked == [id |-> "-", status |-> 0, rid |-> 0, listed |-> <<>>]

InitIds ==
    /\ RunIdle
    /\ workers = <<>> /\ env = <<>> /\ zeroconf = <<>>
    /\ ids = [now |-> 0, entries |-> {}, query |-> NotAsked]
    /\ runtime = <<>> /\ uploads = <<>> /\ params = <<>>
    /\ multipart = <<>> /\ outputs = <<>>

\* run.rs 162-171, request_entry.rs 40-75: a run request gets its entry;
\* RequestEntry::new gives it its id from the three names and the instant
\* Utc::now() returns.  Requests served concurrently may read the same
\* instant.
NewEntry(dep, m, f) ==
    /\ Cardinality(ids.entries) < MaxEntries
    /\ ids' = [ids EXCEPT !.entries = @ \cup
                  {[rid |-> Cardinality(ids.entries) + 1, pc |-> "created",
                    dep |-> dep, mod |-> m, fn |-> f, time |-> ids.now,
                    request_id |-> RequestId(dep, m, f, ids.now),
                    result_url |-> ExternalUrl]}]
    /\ UNCHANGED <<run_vars, workers, env, zeroconf, runtime, uploads, params, multipart, outputs>>

\* run.rs 190-208, 243-270: make_history pushes the entry with the outcome
\* of the execution, then the handler answers with the entry's resultUrl.
FinishEntry(e) ==
    /\ e.pc = "created"
    /\ \E ret \in {Ok(JObj(JStr("7"), Absent, Absent)), Err("Failed to send chained request")} :
          LET entry == HistoryEntry([NoEntry EXCEPT !.rid = e.rid,
                                                    !.request_id = e.request_id], ret)
              resp == RunResponse(entry, ret)
          IN  /\ history' = PushEntry(history, entry)
              /\ ids' = [ids EXCEPT !.entries = (@ \ {e}) \cup
                            {[e EXCEPT !.pc = "done",
                                       !.result_url = ObjResultUrl(resp.body)]}]
    /\ UNCHANGED <<reqs, deployments, lock, instructions, clock, call_headers, disk,
                   admin, unremovable, runtime, uploads, params, multipart, outputs,
                   workers, env, zeroconf>>

\* results.rs 42-82: a client asks for the history: all of it, the entry
\* of an id that was handed out, or an id nobody was given.
QueryHistory(id) ==
    /\ LET resp == request_history_list(id)
       IN  ids' = [ids EXCEPT !.query = [id |-> id, status |-> resp.status,
                                         rid |-> resp.rid, listed |-> resp.listed]]
    /\ UNCHANGED <<run_vars, workers, env, zeroconf, runtime, uploads, params, multipart, outputs>>

\* Time passes between two calls of Utc::now().
TickIds ==
    /\ ids.now < MaxTime
    /\ ids' = [ids EXCEPT !.now = @ + 1]
    /\ UNCHANGED <<run_vars, workers, env, zeroconf, runtime, uploads, params, multipart, outputs>>

NextIds ==
    \/ \E dep \in IdNames, m \in IdNames : NewEntry(dep, m, "a")
    \/ \E e \in ids.entries : FinishEntry(e)
    \/ \E id \in {"", "unknown"} \cup {e.request_id : e \in ids.entries} : QueryHistory(id)
    \/ TickIds

SpecIds == InitIds /\ [][NextIds]_vars

----------------------------------------------------------------------------
(* Mount derivation: MountPathFile::list_from_multipart on its own *)

\* Option::None of an encoding entry's contentType or a property's format
NoneStr == "<none>"

PropertyNames == {"img", "n"}

\* SchemaProperty values: type and optional format
SchemaProperties ==
    { [type |-> "string", format |-> "binary"],
      [type |-> "string", format |-> NoneStr],
      [type |-> "integer", format |-> NoneStr] }

\* MultipartMediaType values: media type, schema (type, properties) and
\* the encoding table, whose entries need not name a property and need not
\* hold a contentType.
MultipartMediaTypes ==
    { [media_type |-> mt, schema_type |-> st, properties |-> pr, encoding |-> en] :
        mt \in {"multipart/form-data", "application/json"},
        st \in {"object", "array"},
        pr \in UNION { [ns -> SchemaProperties] : ns \in SUBSET PropertyNames },
        en \in UNION { [ns -> {"image/png", NoneStr}] : ns \in SUBSET PropertyNames } }

\* The orders in which a HashMap with the keys ks may be iterated.
IterationOrders(ks) ==
    { o \in [1..Cardinality(ks) -> ks] : \A k \in ks : \E j \in DOMAIN o : o[j] = k }

\* deployment_orchestrator.rs 178
is_binaryAlways(property) == TRUE

is_binary(property) == property.type = "string" /\ property.format = "binary"

\* deployment_orchestrator.rs 154-191: validation, then one element per
\* binary property whose encoding entry holds a contentType, in the order
\* the properties are iterated.
list_from_multipart(m_obj, order) ==
    IF m_obj.media_type # "multipart/form-data" THEN [kind |-> "err", mounts |-> <<>>]
    ELSE IF m_obj.schema_type # "object" THEN [kind |-> "err", mounts |-> <<>>]
    ELSE IF DOMAIN m_obj.properties = {} THEN [kind |-> "err", mounts |-> <<>>]
    ELSE LET Pushed(path) ==
                 /\ is_binary(m_obj.properties[path])
                 /\ path \in DOMAIN m_obj.encoding
                 /\ m_obj.encoding[path] # NoneStr
             kept == SelectSeq(order, Pushed)
         IN  [kind |-> "ok",
              mounts |-> [j \in DOMAIN kept |->
                             [path |-> kept[j], media_type |-> m_obj.encoding[kept[j]],
                              stage |-> NoneStr]]]

InitMounts ==
    /\ RunIdle
    /\ workers = <<>> /\ env = <<>> /\ zeroconf = <<>>
    /\ multipart \in { [m_obj |-> m, ret |-> Pending] : m \in MultipartMediaTypes }
    /\ runtime = <<>> /\ uploads = <<>> /\ params = <<>>
    /\ ids = <<>> /\ outputs = <<>>

\* One call of list_from_multipart.
ListFromMultipart ==
    /\ multipart.ret = Pending
    /\ \E order \in IterationOrders(DOMAIN multipart.m_obj.properties) :
          multipart' = [multipart EXCEPT !.ret = list_from_multipart(multipart.m_obj, order)]
    /\ UNCHANGED <<run_vars, workers, env, zeroconf, runtime, uploads, params, ids, outputs>>

NextMounts == ListFromMultipart

SpecMounts == InitMounts /\ [][NextMounts]_vars

----------------------------------------------------------------------------
(* Module loading: WasmtimeRuntime::load_module on its own *)

MaxInstances == 2

MaxReturns == 2

\* config.name of the modules loaded
ModuleNames == {"fibo", "camera"}

\* fs::metadata(&path_serial) fails: there is no serialized artifact
Missing == 0 - 1

\* Modification times a file may carry; the last one is later than any
\* instant the clock reaches.
Mtimes == 0..(MaxTime + 1)

NotLoading == [name |-> "", already |-> FALSE, source_mtime |-> 0, serial_before |-> Missing,
               compiled |-> FALSE, deserialized |-> FALSE, instantiated |-> FALSE,
               ret |-> "none"]

\* No run_function call is the last call on the runtime.
NotRun == [name |-> "", returns |-> 0, filled |-> 0, vals |-> <<>>]

\* The values the exported function of a module returns.
FunctionResults(name) == IF name = "fibo" THEN <<7>> ELSE <<7, 8>>

\* wasmtime.rs 86-116, 139: a new runtime has no module; the source files
\* exist, no artifact does.
InitRuntime ==
    /\ RunIdle
    /\ workers = <<>> /\ env = <<>> /\ zeroconf = <<>>
    /\ runtime = [modules |-> <<>>, source |-> [n \in ModuleNames |-> 0],
                  serial |-> [n \in ModuleNames |-> Missing],
                  now |-> 0, instances |-> 0, last |-> NotLoading, ran |-> NotRun]
    /\ uploads = <<>> /\ params = <<>> /\ ids = <<>>
    /\ multipart = <<>> /\ outputs = <<>>

\* wasmtime.rs 140
contains_keyNever(modules, name) == FALSE

contains_key(modules, name) == name \in DOMAIN modules

\* wasmtime.rs 146-155
should_compileMissingOnly(source_mtime, serial) == serial = Missing

should_compile(source_mtime, serial) ==
    IF serial # Missing THEN source_mtime > serial ELSE TRUE

\* wasmtime.rs 139-186: load_module, whole.  compile_ok: Module::from_file,
\* serialize and fs::write succeed; instance_ok: deserialize_file and
\* instantiate_async succeed.
LoadModule(name) ==
    /\ runtime.instances < MaxInstances
    /\ \E compile_ok \in BOOLEAN, instance_ok \in BOOLEAN :
          LET rt == [runtime EXCEPT !.ran = NotRun]
              called == [NotLoading EXCEPT !.name = name,
                                           !.source_mtime = rt.source[name],
                                           !.serial_before = rt.serial[name]]
              compile == should_compile(rt.source[name], rt.serial[name])
          IN  IF contains_key(rt.modules, name)
              THEN runtime' = [rt EXCEPT !.last = [called EXCEPT !.already = TRUE,
                                                                 !.ret = "ok"]]
              ELSE IF compile /\ ~compile_ok
              THEN runtime' = [rt EXCEPT !.last = [called EXCEPT !.compiled = TRUE,
                                                                 !.ret = "err"]]
              ELSE IF ~instance_ok
              THEN runtime' = [rt EXCEPT
                      !.serial[name] = IF compile THEN rt.now ELSE @,
                      !.last = [called EXCEPT !.compiled = compile,
                                              !.deserialized = TRUE, !.ret = "err"]]
              ELSE runtime' = [rt EXCEPT
                      !.serial[name] = IF compile THEN rt.now ELSE @,
                      !.instances = @ + 1,
                      !.modules = [n \in DOMAIN rt.modules \cup {name} |->
                                      IF n = name THEN rt.instances + 1 ELSE rt.modules[n]],
                      !.last = [called EXCEPT !.compiled = compile,
                                              !.deserialized = TRUE,
                                              !.instantiated = TRUE, !.ret = "ok"]]
    /\ UNCHANGED <<run_vars, workers, env, zeroconf, uploads, params, ids, multipart, outputs>>

\* wasmtime.rs 326-346: run_function, whole, as the last call on the
\* runtime.  Without the module or the function nothing is called; the call
\* may trap; a buffer whose length is not the function's result count may be
\* refused by Func::call_async before anything runs.  `filled` is the number
\* of results the function delivered.
RunFunctionCall(name) ==
    /\ \E returns \in 0..MaxReturns, trap \in BOOLEAN, refused \in BOOLEAN :
          LET found == name \in DOMAIN runtime.modules
              fails == trap \/ (refused /\ returns # Len(FunctionResults(name)))
              out == IF found THEN [trap |-> fails, vals |-> FunctionResults(name)]
                     ELSE [trap |-> FALSE, vals |-> <<>>]
          IN  runtime' = [runtime EXCEPT
                  !.last = NotLoading,
                  !.ran = [name |-> name, returns |-> returns,
                           filled |-> IF out.trap THEN 0 ELSE Len(out.vals),
                           vals |-> run_function(out, returns)]]
    /\ UNCHANGED <<run_vars, workers, env, zeroconf, uploads, params, ids, multipart, outputs>>

\* The source file of a module is written or touched: any modification
\* time, past or future.
TouchSource(name) ==
    /\ \E t \in Mtimes : t # runtime.source[name] /\
          runtime' = [runtime EXCEPT !.source[name] = t]
    /\ UNCHANGED <<run_vars, workers, env, zeroconf, uploads, params, ids, multipart, outputs>>

\* wasmtime.rs 83-116: WasmtimeRuntime::new, the runtime a new deployment
\* is given (deployment.rs 216-232); the files stay.
NewRuntime ==
    /\ runtime.modules # <<>>
    /\ runtime' = [runtime EXCEPT !.modules = <<>>]
    /\ UNCHANGED <<run_vars, workers, env, zeroconf, uploads, params, ids, multipart, outputs>>

TickRuntime ==
    /\ runtime.now < MaxTime
    /\ runtime' = [runtime EXCEPT !.now = @ + 1]
    /\ UNCHANGED <<run_vars, workers, env, zeroconf, uploads, params, ids, multipart, outputs>>

NextRuntime ==
    \/ \E name \in ModuleNames : LoadModule(name)
    \/ \E name \in ModuleNames : RunFunctionCall(name)
    \/ \E name \in ModuleNames : TouchSource(name)
    \/ NewRuntime
    \/ TickRuntime

SpecRuntime == InitRuntime /\ [][NextRuntime]_vars

----------------------------------------------------------------------------
(* Staging of uploads by concurrent requests: run.rs 122-159 by its awaits *)

MaxUploads == 2

MaxChunks == 2

Uploaders == 1..MaxUploads

\* The filename of a part's Content-Disposition, as the client wrote it.
ClientFilenames == {"x.dat", "y.dat", "x?.dat"}

\* sanitize_filename::sanitize (run.rs 131): the characters that are not
\* allowed in a file name are dropped.
sanitize(filename) == IF filename = "x?.dat" THEN "x.dat" ELSE filename

\* The body of uploader c's part: its first n chunks, as field.next()
\* delivers them.
Body(c, n) == [k \in 1..n |-> <<c, k>>]

\* The bytes a file holds where nothing was written.
Hole == <<0, 0>>

\* std::fs::File::write_all at the handle's offset: the chunk replaces what
\* is there; a gap before it reads as zeros.
WriteAt(content, pos, chunk) ==
    [j \in 1..(IF Len(content) > pos THEN Len(content) ELSE pos + 1) |->
        IF j = pos + 1 THEN chunk
        ELSE IF j <= Len(content) THEN content[j] ELSE Hole]

NotUploading == [pc |-> "idle", filename |-> "", save_path |-> "", body |-> <<>>,
                 pos |-> 0, status |-> 0]

\* Requests of one module: the params directory is empty.
InitUpload ==
    /\ RunIdle
    /\ workers = <<>> /\ env = <<>> /\ zeroconf = <<>>
    /\ uploads = [c \in Uploaders |-> NotUploading]
    /\ params = <<>>
    /\ runtime = <<>> /\ ids = <<>> /\ multipart = <<>> /\ outputs = <<>>

\* run.rs 125-134: a POST with one file part arrives; the path it is saved
\* under is the sanitized filename in the module's params directory.
UploadRequest(c) ==
    /\ uploads[c].pc = "idle"
    /\ \E filename \in ClientFilenames, n \in 1..MaxChunks :
          uploads' = [uploads EXCEPT ![c] =
              [NotUploading EXCEPT !.pc = "create", !.filename = filename,
                                   !.save_path = sanitize(filename), !.body = Body(c, n)]]
    /\ UNCHANGED <<run_vars, workers, env, zeroconf, params, runtime, ids, multipart, outputs>>

\* run.rs 135-146: File::create makes the file or truncates it; 500 when it
\* cannot.
CreateFile(c) ==
    /\ uploads[c].pc = "create"
    /\ \/ /\ uploads' = [uploads EXCEPT ![c].pc = "write"]
          /\ params' = [p \in DOMAIN params \cup {uploads[c].save_path} |->
                           IF p = uploads[c].save_path THEN <<>> ELSE params[p]]
       \/ /\ uploads' = [uploads EXCEPT ![c].pc = "done", ![c].status = 500]
          /\ UNCHANGED params
    /\ UNCHANGED <<run_vars, workers, env, zeroconf, runtime, ids, multipart, outputs>>

\* run.rs 148-155: after field.next().await delivered a chunk, write_all
\* puts it at this handle's offset.
WriteChunk(c) ==
    /\ uploads[c].pc = "write"
    /\ uploads[c].pos < Len(uploads[c].body)
    /\ LET u == uploads[c]
       IN  /\ params' = [params EXCEPT ![u.save_path] =
                            WriteAt(@, u.pos, u.body[u.pos + 1])]
           /\ uploads' = [uploads EXCEPT ![c].pos = @ + 1]
    /\ UNCHANGED <<run_vars, workers, env, zeroconf, runtime, ids, multipart, outputs>>

\* run.rs 148, 157: field.next().await returns None; the file is recorded
\* in request_files and the handler goes on.
FinishUpload(c) ==
    /\ uploads[c].pc = "write"
    /\ uploads[c].pos = Len(uploads[c].body)
    /\ uploads' = [uploads EXCEPT ![c].pc = "done", ![c].status = 200]
    /\ UNCHANGED <<run_vars, workers, env, zeroconf, params, runtime, ids, multipart, outputs>>

NextUpload ==
    \E c \in Uploaders :
        \/ UploadRequest(c)
        \/ CreateFile(c)
        \/ WriteChunk(c)
        \/ FinishUpload(c)

SpecUpload == InitUpload /\ [][NextUpload]_vars

----------------------------------------------------------------------------
(* Output files: their URLs and get_module_result *)

\* OUTPUT mount paths of the executed function
OutputNames == {"img", "a b", "a/b", "a%20b"}

\* utils.rs 82-88: get_params_path with a filename, as the characters of
\* PARAMS_FOLDER/{deployment}/{module}/{filename}
get_params_path(dep, m, file) == dep \o <<"/">> \o m \o <<"/">> \o file

\* The segments of a request path, as the router splits it.
RECURSIVE Segments(_)
Segments(chars) ==
    IF \A j \in DOMAIN chars : chars[j] # "/" THEN <<chars>>
    ELSE LET k == CHOOSE k \in DOMAIN chars :
                     chars[k] = "/" /\ \A j \in 1..(k - 1) : chars[j] # "/"
         IN  <<SubSeq(chars, 1, k - 1)>> \o Segments(SubSeq(chars, k + 1, Len(chars)))

\* Percent-decoding of a path segment by web::Path.
RECURSIVE urldecode(_)
urldecode(chars) ==
    IF chars = <<>> THEN <<>>
    ELSE IF /\ Head(chars) = "%" /\ Len(chars) >= 3
            /\ \E c \in Escaped : PercentCode(c) = <<chars[2], chars[3]>>
    THEN <<CHOOSE c \in Escaped : PercentCode(c) = <<chars[2], chars[3]>>>>
             \o urldecode(SubSeq(chars, 4, Len(chars)))
    ELSE <<Head(chars)>> \o urldecode(Tail(chars))

\* results.rs 9-37: GET /module_results/{deployment_id}/{module_name}/{filename}:
\* the file at get_params_path of the three decoded segments, or 404; a path
\* that has not three segments matches no route.
get_module_result(path, files) ==
    LET seg == Segments(path)
    IN  IF Len(seg) # 3 THEN [status |-> 404, body |-> NoBody]
        ELSE LET file_path == get_params_path(urldecode(seg[1]), urldecode(seg[2]),
                                              urldecode(seg[3]))
             IN  IF file_path \in DOMAIN files
                 THEN [status |-> 200, body |-> files[file_path]]
                 ELSE [status |-> 404, body |-> NoBody]

\* A function of one module with some OUTPUT mounts, not yet executed.
InitOutputs ==
    /\ RunIdle
    /\ workers = <<>> /\ env = <<>> /\ zeroconf = <<>>
    /\ outputs \in { [dep |-> "d1", mod |-> m, mounts |-> ms, files |-> <<>>,
                      produced |-> {}, entry_outputs |-> {}, executed |-> FALSE,
                      get |-> [url |-> <<>>, status |-> 0, body |-> NoBody]] :
                     m \in {"A", "a b"}, ms \in SUBSET OutputNames }
    /\ runtime = <<>> /\ uploads = <<>> /\ params = <<>>
    /\ ids = <<>> /\ multipart = <<>>

\* run.rs 326-399: the function runs and leaves some of its output files
\* in the module's params directory (the runtime's preopened directory,
\* deployment.rs 218-221); parse_endpoint_result lists them and the entry
\* gets one URL per listed file.
Execute ==
    /\ ~outputs.executed
    /\ \E present \in SUBSET outputs.mounts :
          LET o == outputs
              PathOf(f) == get_params_path(Chars(o.dep), Chars(o.mod), Chars(f))
              parsed == parse_endpoint_result(JNum(0),
                            [media |-> "image/jpeg", output_mounts |-> o.mounts], present)
          IN  outputs' = [o EXCEPT
                  !.executed = TRUE,
                  !.produced = present,
                  !.files = [p \in {PathOf(f) : f \in present} |->
                                <<"bytes", CHOOSE f \in present : PathOf(f) = p>>],
                  !.entry_outputs = {make_output_url(o.dep, o.mod, f) : f \in parsed.files}]
    /\ UNCHANGED <<run_vars, workers, env, zeroconf, runtime, uploads, params, ids, multipart>>

\* A client follows one of the entry's output URLs.
GetModuleResult ==
    /\ outputs.executed
    /\ \E url \in outputs.entry_outputs :
          LET resp == get_module_result(url[3], outputs.files)
          IN  outputs' = [outputs EXCEPT
                  !.get = [url |-> url, status |-> resp.status, body |-> resp.body]]
    /\ UNCHANGED <<run_vars, workers, env, zeroconf, runtime, uploads, params, ids, multipart>>

NextOutputs ==
    \/ Execute
    \/ GetModuleResult

SpecOutputs == InitOutputs /\ [][NextOutputs]_vars

----------------------------------------------------------------------------
(* Worker threads.  Every request is served by one worker thread, which     *)
(* polls its requests one at a time; DEPLOYMENTS is a parking_lot mutex,    *)
(* whose lock() keeps the calling thread until the mutex is free.           *)

MaxWorkers == 2

Threads == 1..MaxWorkers

\* The requests a worker thread has accepted.
Accepted == 1..Len(workers)

\* The request's thread is inside DEPLOYMENTS.lock() (run.rs 95, 282).
InLock(i) == i \in Accepted /\ workers[i].waiting_at = reqs[i].pc

\* do_wasm_work awaits prepare_for_running (run.rs 302-308) and the Wasm
\* call (run.rs 326-332) with the guard of DEPLOYMENTS alive.
SuspendedWithLock(i) == lock = i /\ reqs[i].pc \in {"prepare", "run"}

\* The thread of request i can poll it: none of the thread's other requests
\* keeps it inside lock().
Runnable(i) ==
    /\ i \in Accepted
    /\ \A j \in Accepted \ {i} : workers[j].thread = workers[i].thread => ~InLock(j)

InitSched == InitConc

\* The threads that serve a request already, and the first idle one: the
\* threads are alike, so they are numbered as they come into use.
InUse == {w \in Threads : w = 1 \/ \E j \in Accepted : workers[j].thread = w - 1}

\* A worker thread accepts the connection of the next request.
Accept ==
    /\ Len(workers) < Len(reqs)
    /\ \E w \in InUse : workers' = Append(workers, [thread |-> w, waiting_at |-> "-"])
    /\ UNCHANGED <<run_vars, runtime, uploads, params, ids, multipart, outputs, env, zeroconf>>

\* run.rs 95, 282: DEPLOYMENTS.lock() while another request holds the mutex:
\* the thread waits inside lock().  A holder served by the same thread is
\* one that is suspended at an await.
BlockOnDeployments(i) ==
    /\ Runnable(i) /\ ~InLock(i)
    /\ reqs[i].pc \in {"lookup", "engine"}
    /\ lock # 0
    /\ workers[lock].thread = workers[i].thread => SuspendedWithLock(lock)
    /\ workers' = [workers EXCEPT ![i].waiting_at = reqs[i].pc]
    /\ UNCHANGED <<run_vars, runtime, uploads, params, ids, multipart, outputs, env, zeroconf>>

\* The thread of request i polls it: the request takes its next step.
Poll(i) ==
    /\ i \in Reqs /\ Runnable(i)
    /\ \/ StepGuard(i)
       \/ CheckDeployment(i)
       \/ StageFiles(i)
       \/ DoWasmLookup(i)
       \/ Prepare(i)
       \/ RunFunction(i)
       \/ Interpret(i)
       \/ MakeHistory(i)
       \/ Respond(i)

NextSched ==
    \/ ConcurrentClientRequest
    \/ Accept
    \/ \E i \in Reqs : BlockOnDeployments(i)
    \/ \E i \in Reqs : Poll(i)
    \/ \E d \in DeploymentIds : DeploymentDelete(d)

\* A worker thread that is not inside lock() keeps accepting connections
\* and polling the requests that are ready.
FairSched == WF_vars(Accept) /\ \A i \in 1..MaxClients : WF_vars(Poll(i))

SpecSched == InitSched /\ [][NextSched]_vars /\ FairSched

----------------------------------------------------------------------------
(* A delete request served by another worker thread while a create request  *)
(* is in progress.                                                          *)

\* deployment.rs 339-415, while deployment_create is between two of its
\* steps: the deployment leaves the registry and its files are removed.
DeleteDuringCreate(d) ==
    /\ admin.op = "create" /\ admin.pc \notin {"idle", "done"}
    /\ lock = 0
    /\ IsRegistered(deployments, d)
    /\ deployments' = deployments \ {d}
    /\ disk' = [disk EXCEPT ![d] = RemoveFiles(disk[d], unremovable)]
    /\ UNCHANGED <<reqs, lock, history, instructions, clock, call_headers, admin,
                   unremovable, lib_vars>>

NextRace ==
    \/ NextDeploy
    \/ \E d \in AllIds : DeleteDuringCreate(d)

SpecRace == InitDeploy /\ [][NextRace]_vars

----------------------------------------------------------------------------
(* register_orchestrator (src/src/api/device.rs 172-203): POST requests     *)
(* served by several worker threads write the process environment.         *)

MaxRegistrations == 2

Registrations == 1..Len(env.regs)

\* An environment variable that is not set.
Unset == "<unset>"

\* The JSON payloads: data.is_object(), data.get("url").is_some(), and
\* data["url"].as_str().unwrap_or("").
RegisterPayloads ==
    { [is_object |-> FALSE, has_url |-> FALSE, url |-> ""],
      [is_object |-> TRUE, has_url |-> FALSE, url |-> ""],
      [is_object |-> TRUE, has_url |-> TRUE, url |-> ""],
      [is_object |-> TRUE, has_url |-> TRUE, url |-> "orchestrator"],
      [is_object |-> TRUE, has_url |-> TRUE, url |-> "http://a:3000"],
      [is_object |-> TRUE, has_url |-> TRUE, url |-> "http://b:3000"] }

\* reqwest::Url::parse(..).is_ok(): an absolute URL has a scheme.
UrlParses(url) == url \in {"http://a:3000", "http://b:3000"}

\* device.rs 190: format!("{}/device/logs", orchestrator_url)
logging_endpoint(url) == url \o "/device/logs"

InitEnv ==
    /\ RunIdle
    /\ runtime = <<>> /\ uploads = <<>> /\ params = <<>> /\ ids = <<>>
    /\ multipart = <<>> /\ outputs = <<>> /\ workers = <<>> /\ zeroconf = <<>>
    /\ env = [WASMIOT_ORCHESTRATOR_URL |-> Unset,
              WASMIOT_LOGGING_ENDPOINT |-> Unset,
              regs |-> <<>>]

RegDone(p, status, panicked) ==
    [url |-> p.url, pc |-> "done", status |-> status, panicked |-> panicked]

\* device.rs 172-186: a payload that is no object or has no url, and a url
\* that does not parse, are answered 400; nothing is written.
RegisterOrchestrator ==
    /\ Len(env.regs) < MaxRegistrations
    /\ \E p \in RegisterPayloads :
          env' = [env EXCEPT !.regs = Append(@,
                     IF ~p.is_object \/ ~p.has_url \/ ~UrlParses(p.url)
                     THEN RegDone(p, 400, FALSE)
                     ELSE [url |-> p.url, pc |-> "set_url", status |-> 0,
                           panicked |-> FALSE])]
    /\ UNCHANGED <<run_vars, workers, zeroconf, runtime, uploads, params, ids, multipart, outputs>>

\* device.rs 192: env::set_var("WASMIOT_ORCHESTRATOR_URL", orchestrator_url)
SetOrchestratorUrl(k) ==
    /\ env.regs[k].pc = "set_url"
    /\ env' = [env EXCEPT !.WASMIOT_ORCHESTRATOR_URL = env.regs[k].url,
                          !.regs[k].pc = "set_log"]
    /\ UNCHANGED <<run_vars, workers, zeroconf, runtime, uploads, params, ids, multipart, outputs>>

\* device.rs 193: env::set_var("WASMIOT_LOGGING_ENDPOINT", &logging_endpoint)
SetLoggingEndpoint(k) ==
    /\ env.regs[k].pc = "set_log"
    /\ env' = [env EXCEPT !.WASMIOT_LOGGING_ENDPOINT = logging_endpoint(env.regs[k].url),
                          !.regs[k].pc = "assert_url"]
    /\ UNCHANGED <<run_vars, workers, zeroconf, runtime, uploads, params, ids, multipart, outputs>>

\* device.rs 195: assert_eq!(env::var("WASMIOT_ORCHESTRATOR_URL"), Ok(url));
\* a failed assertion panics: the request gets no response.
AssertOrchestratorUrl(k) ==
    /\ env.regs[k].pc = "assert_url"
    /\ env' = [env EXCEPT !.regs[k] =
                  IF env.WASMIOT_ORCHESTRATOR_URL = env.regs[k].url
                  THEN [@ EXCEPT !.pc = "assert_log"]
                  ELSE RegDone(@, 0, TRUE)]
    /\ UNCHANGED <<run_vars, workers, zeroconf, runtime, uploads, params, ids, multipart, outputs>>

\* device.rs 196-202: assert_eq!(env::var("WASMIOT_LOGGING_ENDPOINT"),
\* Ok(logging_endpoint)), then 200 {"status": "success"}.
AssertLoggingEndpoint(k) ==
    /\ env.regs[k].pc = "assert_log"
    /\ env' = [env EXCEPT !.regs[k] =
                  IF env.WASMIOT_LOGGING_ENDPOINT = logging_endpoint(env.regs[k].url)
                  THEN RegDone(@, 200, FALSE)
                  ELSE RegDone(@, 0, TRUE)]
    /\ UNCHANGED <<run_vars, workers, zeroconf, runtime, uploads, params, ids, multipart, outputs>>

NextEnv ==
    \/ RegisterOrchestrator
    \/ \E k \in Registrations : SetOrchestratorUrl(k)
    \/ \E k \in Registrations : SetLoggingEndpoint(k)
    \/ \E k \in Registrations : AssertOrchestratorUrl(k)
    \/ \E k \in Registrations : AssertLoggingEndpoint(k)

SpecEnv == InitEnv /\ [][NextEnv]_vars

----------------------------------------------------------------------------
(* Service advertisement (src/src/lib/zeroconf.rs): the thread that         *)
(* advertises the supervisor over mDNS watches the renewal timer, which    *)
(* the orchestrator's health checks (src/src/api/device.rs) reset.         *)

\* register_renewal_time: WASMIOT_REGISTER_RENEWAL_TIME, in seconds
RenewalTime == 2

\* zeroconf.rs 316: tokio::time::sleep(Duration::from_secs(5))
SleepSeconds == 5

\* The hosts health checks come from; X-Forwarded-For or the peer address.
Senders == {"a", "b"}

\* reqwest::Url::parse(url).host() as a string (device.rs 113-117); empty
\* for a url that does not parse, as the unset variable's "".
UrlHost(url) ==
    CASE url = "http://a:3000" -> "a"
      [] url = "http://b:3000" -> "b"
      [] OTHER -> ""

\* zeroconf.rs 289-290: time_since_last_register > register_renewal_time
time_checkAtLeast(time_since_last_register, register_renewal_time) ==
    time_since_last_register >= register_renewal_time

time_check(time_since_last_register, register_renewal_time) ==
    time_since_last_register > register_renewal_time

\* The seconds since last_register_time are kept up to the first value
\* beyond the renewal time: the loop only compares them with it.
InitZeroconf ==
    /\ RunIdle
    /\ runtime = <<>> /\ uploads = <<>> /\ params = <<>> /\ ids = <<>>
    /\ multipart = <<>> /\ outputs = <<>> /\ workers = <<>>
    /\ \E url \in {Unset, "http://a:3000"} :
          env = [WASMIOT_ORCHESTRATOR_URL |-> url,
                 WASMIOT_LOGGING_ENDPOINT |-> Unset, regs |-> <<>>]
    /\ zeroconf = [register_renewal_time |-> RenewalTime,
                   time_since_last_register |-> 0,
                   advertising |-> "polling",
                   sleep_left |-> 0,
                   registration |-> "idle",
                   health |-> "none"]

\* A second passes.
Second ==
    /\ zeroconf' = [zeroconf EXCEPT
          !.time_since_last_register =
              IF @ > zeroconf.register_renewal_time THEN @ ELSE @ + 1,
          !.sleep_left = IF @ > 0 THEN @ - 1 ELSE 0]
    /\ UNCHANGED <<run_vars, workers, env, runtime, uploads, params, ids, multipart, outputs>>

\* device.rs 112-150: a health check whose sender is the host of
\* WASMIOT_ORCHESTRATOR_URL restarts the renewal timer
\* (register_health_check, zeroconf.rs 310-313); any other does not.
ThingiHealth(sender) ==
    /\ LET orchestrator_url == IF env.WASMIOT_ORCHESTRATOR_URL = Unset THEN ""
                               ELSE env.WASMIOT_ORCHESTRATOR_URL
           orchestrator_ip == UrlHost(orchestrator_url)
       IN  IF orchestrator_url # "" /\ sender = orchestrator_ip
           THEN zeroconf' = [zeroconf EXCEPT !.time_since_last_register = 0,
                                             !.health = "reported"]
           ELSE zeroconf' = [zeroconf EXCEPT !.health = "not reported"]
    /\ UNCHANGED <<run_vars, workers, env, runtime, uploads, params, ids, multipart, outputs>>

\* zeroconf.rs 283-299: one turn of the advertising thread's loop; when the
\* timer is exceeded the loop is left and update_service_registration
\* begins with its sleep.
PollLoop ==
    /\ zeroconf.advertising = "polling"
    /\ time_check(zeroconf.time_since_last_register, zeroconf.register_renewal_time)
    /\ zeroconf' = [zeroconf EXCEPT !.advertising = "sleeping",
                                    !.sleep_left = SleepSeconds]
    /\ UNCHANGED <<run_vars, workers, env, runtime, uploads, params, ids, multipart, outputs>>

\* zeroconf.rs 315-320: after the sleep the timer is restarted and the two
\* threads are spawned that advertise and register again.
UpdateServiceRegistration ==
    /\ zeroconf.advertising = "sleeping" /\ zeroconf.sleep_left = 0
    /\ zeroconf' = [zeroconf EXCEPT !.time_since_last_register = 0,
                                    !.advertising = "starting",
                                    !.registration = "pending"]
    /\ UNCHANGED <<run_vars, workers, env, runtime, uploads, params, ids, multipart, outputs>>

\* zeroconf.rs 209-232, 259-282: the server is reachable; the service is
\* registered with mDNS and the new thread enters its loop.
WaitUntilReadyAndRegister ==
    /\ zeroconf.advertising = "starting"
    /\ zeroconf' = [zeroconf EXCEPT !.advertising = "polling"]
    /\ UNCHANGED <<run_vars, workers, env, runtime, uploads, params, ids, multipart, outputs>>

\* zeroconf.rs 117-143: the registration is sent to the orchestrator if
\* WASMIOT_ORCHESTRATOR_URL is set, and skipped if it is not.
ForceSupervisorRegistration ==
    /\ zeroconf.registration = "pending"
    /\ zeroconf' = [zeroconf EXCEPT !.registration =
                       IF env.WASMIOT_ORCHESTRATOR_URL # Unset THEN "sent" ELSE "skipped"]
    /\ UNCHANGED <<run_vars, workers, env, runtime, uploads, params, ids, multipart, outputs>>

NextZeroconf ==
    \/ Second
    \/ \E sender \in Senders : ThingiHealth(sender)
    \/ PollLoop
    \/ UpdateServiceRegistration
    \/ WaitUntilReadyAndRegister
    \/ ForceSupervisorRegistration

\* Time passes, and each of the threads (std::thread::spawn) gets to run.
FairZeroconf ==
    /\ WF_vars(Second)
    /\ WF_vars(PollLoop)
    /\ WF_vars(UpdateServiceRegistration)
    /\ WF_vars(WaitUntilReadyAndRegister)
    /\ WF_vars(ForceSupervisorRegistration)

SpecZeroconf == InitZeroconf /\ [][NextZeroconf]_vars /\ FairZeroconf

----------------------------------------------------------------------------
(* Properties *)

\* The decimal number written by the digit string s is greater than n.
DecimalGreater(s, n) ==
    LET t == StripZeros(s)
        d == UsizeToString(n)
    IN  /\ Len(s) > 0
        /\ \A k \in 1..Len(s) : IsDigit(s[k])
        /\ \/ Len(t) > Len(d)
           \/ Len(t) = Len(d) /\ LexGreater(t, d)

\* The request arrived with an X-Chain-Step value greater than n.
ArrivedAbove(r, n) ==
    \E v \in HeaderValues(r.headers, "X-Chain-Step") : DecimalGreater(v, n)

\* The request arrived with an X-Chain-Step value equal to n.
ArrivedAt(r, n) == HeaderValues(r.headers, "X-Chain-Step") = {UsizeToString(n)}

\* The hop guard stopped the request: 400, nothing looked up, run or sent.
Rejected(r) ==
    /\ r.pc \in {"arrived", "done"}
    /\ r.pc = "done" => r.status = 400
    /\ ~r.resolved /\ ~r.created /\ r.calls = 0 /\ r.sends = 0

\* The entries of the history recorded for request i.
EntriesOf(i) == {k \in 1..Len(history) : history[k].rid = i}

\* C1: a request arriving with an X-Chain-Step value above MAX_DEPLOYMENT_STEPS
\* is rejected with 400 before the deployment is resolved; no Wasm function
\* runs and no chained request is sent for it.
C1_AboveMaxRejected ==
    \A i \in Reqs : ArrivedAbove(reqs[i], MAX_DEPLOYMENT_STEPS) => Rejected(reqs[i])

\* C2 as stated: a request arriving with X-Chain-Step equal to
\* MAX_DEPLOYMENT_STEPS is answered 400, nothing run, nothing sent.
C2_AtMaxRejected ==
    \A i \in Reqs : ArrivedAt(reqs[i], MAX_DEPLOYMENT_STEPS) => Rejected(reqs[i])

\* C2 amended: a request arriving with X-Chain-Step equal to
\* MAX_DEPLOYMENT_STEPS passes the hop guard (it is never answered 400 and goes
\* on to the deployment lookup); a request arriving with MAX_DEPLOYMENT_STEPS + 1
\* is rejected with 400, nothing run, nothing sent.
C2_AtMaxAccepted ==
    \A i \in Reqs :
        /\ ArrivedAt(reqs[i], MAX_DEPLOYMENT_STEPS) =>
              /\ reqs[i].status # 400
              /\ reqs[i].pc # "arrived" => reqs[i].step_index = MAX_DEPLOYMENT_STEPS
              /\ reqs[i].pc = "done" => reqs[i].resolved \/ reqs[i].filename
        /\ ArrivedAt(reqs[i], MAX_DEPLOYMENT_STEPS + 1) => Rejected(reqs[i])

C2_Witness ==
    \E i \in Reqs : ArrivedAt(reqs[i], MAX_DEPLOYMENT_STEPS) /\ reqs[i].calls = 1
                    /\ reqs[i].pc = "done"

\* C3: every chained request carries exactly one X-Chain-Step value, the
\* step index of the request that emits it plus one, whatever the call data's
\* headers are; the next hop reads that index back.
C3_ChainStepPlusOne ==
    \A i \in Reqs :
        /\ reqs[i].pc \in {"send", "await", "fetch"} \/ reqs[i].sends > 0 =>
              HeaderValues(reqs[i].out_headers, "X-Chain-Step")
                  = {UsizeToString(reqs[i].step_index + 1)}
        /\ reqs[i].parent # 0 =>
              /\ reqs[i].headers = reqs[reqs[i].parent].out_headers
              /\ reqs[i].pc # "arrived" =>
                    reqs[i].step_index = reqs[reqs[i].parent].step_index + 1

C3_Witness ==
    \E i \in Reqs :
        /\ reqs[i].parent # 0 /\ reqs[i].pc = "done"
        /\ reqs[reqs[i].parent].step_index > 0
        /\ HasHeader(CopyHeaders(call_headers), "X-Chain-Step")

\* C4: a chain ends after at most MAX_DEPLOYMENT_STEPS + 1 executed hops, cyclic
\* instructions included: no request is looked up, run or chained with a step
\* index above MAX_DEPLOYMENT_STEPS, each hop's index is its parent's plus one,
\* a rejected request emits nothing, and so a chain never has more than
\* MAX_DEPLOYMENT_STEPS + 2 requests.
C4_ChainBounded ==
    /\ \A i \in Reqs :
          /\ reqs[i].pc \notin {"arrived", "done"} \/ reqs[i].resolved =>
                reqs[i].step_index <= MAX_DEPLOYMENT_STEPS
          /\ reqs[i].status = 400 => reqs[i].sends = 0 /\ reqs[i].child = 0
          /\ reqs[i].parent # 0 /\ reqs[i].pc # "arrived" =>
                reqs[i].step_index > reqs[reqs[i].parent].step_index
          /\ reqs[i].sends <= 1
    /\ Len(reqs) <= MAX_DEPLOYMENT_STEPS + 2

C4_Witness ==
    /\ instructions[<<"B", "g">>] = Self("A", "f")
    /\ Len(reqs) = MAX_DEPLOYMENT_STEPS + 2
    /\ \A i \in Reqs : reqs[i].pc = "done"
    /\ reqs[Len(reqs)].status = 400
    /\ \A i \in 1..(Len(reqs) - 1) : reqs[i].calls = 1

C6_StepOrder ==
    \A i \in Reqs :
        /\ reqs[i].calls > 0 => reqs[i].prepared
        /\ reqs[i].interpreted => reqs[i].calls > 0
        /\ reqs[i].sends > 0 \/ reqs[i].pc \in {"send", "await", "fetch"} =>
              reqs[i].interpreted
        /\ reqs[i].recorded => reqs[i].ret.kind # "pending"
        /\ EntriesOf(i) # {} => reqs[i].recorded

C6_Witness ==
    \E i \in Reqs : reqs[i].sends = 1 /\ reqs[i].recorded /\ reqs[i].ret.kind = "ok"

\* C7: when the function traps, the request is recorded with success = false
\* and an error message as result, and the function is not called again.
C7_TrapRecordedAsFailure ==
    \A i \in Reqs :
        reqs[i].trapped =>
            /\ reqs[i].calls = 1
            /\ \A k \in EntriesOf(i) :
                  /\ ~history[k].success
                  /\ history[k].result = JStr("wasm trap")

\* The request reached prepare_for_running without a required argument or file.
MissingInput(r) ==
    /\ <<r.mod, r.fn>> \in Endpoints
    /\ ~(EndpointOf(r.mod, r.fn).args \subseteq r.args
         /\ EndpointOf(r.mod, r.fn).files \subseteq r.request_files)
    /\ r.created /\ r.pc \notin {"engine", "prepare"}
    /\ r.ret # Err("Deployment not found")

\* C8: when preparation fails the function is not called and the request is
\* recorded with success = false and the error message as result.
C8_PrepareFailureRecorded ==
    \A i \in Reqs :
        MissingInput(reqs[i]) =>
            /\ reqs[i].calls = 0
            /\ reqs[i].ret = Err("ArgumentMismatch")
            /\ reqs[i].recorded =>
                  /\ EntriesOf(i) # {}
                  /\ \A k \in EntriesOf(i) :
                        ~history[k].success /\ history[k].result = JStr("ArgumentMismatch")

C8_Witness ==
    \E i \in Reqs : MissingInput(reqs[i]) /\ reqs[i].pc = "done"

ChainedCallFailed(r) ==
    \/ r.fault \in {"send", "fetch"}
    \/ r.chained = InvalidJson
    \/ r.fetched = InvalidJson

ChainErrors ==
    { Err("Failed to send chained request"), Err("Invalid response JSON"),
      Err("Failed to fetch resultUrl"), Err("Invalid JSON from resultUrl") }

\* C10: a failed chained call makes do_wasm_work return its error; the entry
\* is recorded with success = false and that error as result, and the step
\* that fails leaves the registry as it is.
C10_State ==
    \A i \in Reqs :
        ChainedCallFailed(reqs[i]) =>
            /\ reqs[i].ret \in ChainErrors
            /\ reqs[i].recorded =>
                  /\ EntriesOf(i) # {}
                  /\ \A k \in EntriesOf(i) :
                        ~history[k].success /\ history[k].result = reqs[i].ret.val

C10_Step ==
    (\E i \in Reqs : ~ChainedCallFailed(reqs[i]) /\ ChainedCallFailed(reqs'[i]))
        => deployments' = deployments

C11_Non2xxIsFailure ==
    \A i \in Reqs :
        /\ reqs[i].child # 0
        /\ reqs[i].chained # NoBody
        /\ reqs[reqs[i].child].status \notin {200}
        => /\ reqs[i].ret.kind = "err"
           /\ \A k \in EntriesOf(i) : ~history[k].success

\* The request holds the DEPLOYMENTS mutex.
HoldsLock(i) == lock = i

\* The request is at an I/O operation of the engine: prepare_for_running
\* (writes the uploaded files into the params directory) is about to run, the
\* Wasm function is being run, or the output files are being read.
AtEngineIO(r) == r.pc \in {"prepare", "run", "interpret"}

\* C13 as stated: no request holds the DEPLOYMENTS mutex across an I/O
\* operation (staging files, running the Wasm function, outbound HTTP).
C13_NoLockAcrossIO ==
    \A i \in Reqs :
        AtEngineIO(reqs[i]) \/ reqs[i].pc \in {"staging", "send", "await", "fetch"}
            => ~HoldsLock(i)

\* C14: from the moment the chained request is built until its response and
\* its resultUrl were read, the engine does not hold the DEPLOYMENTS mutex;
\* the hop served by this supervisor is the only request that may hold it.
C14_NoLockWhileChaining ==
    \A i \in Reqs :
        reqs[i].pc \in {"send", "await", "fetch"} =>
            /\ ~HoldsLock(i)
            /\ lock # 0 => reqs[lock].parent # 0 /\ reqs[lock].step_index > reqs[i].step_index

C14_Witness ==
    \E i \in Reqs :
        /\ reqs[i].pc = "fetch"
        /\ reqs[i].child # 0
        /\ reqs[reqs[i].child].pc = "done"
        /\ reqs[reqs[i].child].calls = 1

\* C15: the request history is append-only: every step keeps the entries
\* already recorded, in their order and with all their fields.
C15_Step ==
    /\ Len(history') >= Len(history)
    /\ \A k \in 1..Len(history) : history'[k] = history[k]

C15_HistoryAppendOnly == [][C15_Step]_vars

C15_Witness ==
    /\ Len(history) >= 2
    /\ ~history[1].success
    /\ \E i \in Reqs : reqs[i].pc = "done" /\ reqs[i].fetches = 1

\* do_wasm_work or the handler found no deployment, or no such module in it.
Unresolved(r) ==
    \/ r.ret = Err("Deployment not found")
    \/ r.body \in { JObj(Absent, Absent, JStr("Deployment not found")),
                    JObj(Absent, Absent, JStr("Module not found in deployment")) }

\* C20 as stated: a run request whose deployment or module cannot be resolved
\* is answered 404 and no Wasm function is invoked for it.
C20_UnresolvedIs404 ==
    \A i \in Reqs :
        reqs[i].pc = "done" /\ Unresolved(reqs[i]) =>
            reqs[i].status = 404 /\ reqs[i].calls = 0

\* The Wasm function of the request is being run on the runtime of its module.
Invoking(r) == r.pc = "run"

\* C12: at most one invocation is in progress on the runtime of a module at
\* any time, whichever functions of the module the concurrent requests name.
C12_OneInvocationPerRuntime ==
    \A i, j \in Reqs :
        /\ i # j
        /\ reqs[i].dep = reqs[j].dep /\ reqs[i].mod = reqs[j].mod
        => ~(Invoking(reqs[i]) /\ Invoking(reqs[j]))

C12_Witness ==
    \E i, j \in Reqs :
        /\ reqs[i].mod = reqs[j].mod /\ reqs[i].fn # reqs[j].fn
        /\ Invoking(reqs[i])
        /\ reqs[j].pc = "engine" /\ reqs[j].dep \in deployments

\* C16 as stated: when a create request for an id that had nothing (no
\* registry entry, no document, no directory) fails, the id is not in the
\* registry and no document or directory of it is on disk.
C16_FailedCreateLeavesNothing ==
    admin.op = "create" /\ admin.pc = "done" /\ admin.status # 200 /\ admin.fresh
        => admin.id \notin deployments /\ disk[admin.id] = NoFiles

\* C17 as stated: when a delete was answered 200 the deployment is not in
\* the registry and its document and its two directories are gone.
C17_DeletedLeavesNothing ==
    admin.op = "delete" /\ admin.pc = "done" /\ admin.status = 200
        => admin.id \notin deployments /\ disk[admin.id] = NoFiles

\* C18: a delete of an id that is not in the registry is answered 404 and
\* changes neither the registry nor any file; so is a second delete of an id
\* after a first one that was answered 200.
C18_Step ==
    admin' # admin /\ admin'.op = "delete" /\ admin'.id \notin deployments
        => admin'.status = 404 /\ deployments' = deployments /\ disk' = disk

C19_DocumentNeverPartial ==
    \A d \in AllIds : disk[d].doc \in {"absent", "complete"}

\* The chained requests a request tried to send: the ones that went out and
\* the one that failed to.
SendAttempts(r) == r.sends + (IF r.fault = "send" THEN 1 ELSE 0)

\* C21: a request that chained and succeeded returns the next hop's result:
\* with a resultUrl in the chained response, the `result` of the document
\* fetched from it, or that whole document when it has no `result` key;
\* without a resultUrl, the chained response itself.  The handler hands this
\* value to the client as the `result` of its response.
C21_ChainedResultReturned ==
    \A i \in Reqs :
        LET r == reqs[i]
        IN  r.sends > 0 /\ r.ret.kind = "ok" =>
               /\ r.ret.val = IF ObjResultUrl(r.chained) # Absent
                               THEN IF ObjResult(r.fetched) # Absent
                                    THEN ObjResult(r.fetched)
                                    ELSE r.fetched
                               ELSE r.chained
               /\ r.pc = "done" => ObjResult(r.body) = r.ret.val

\* A chained call whose response had a resultUrl and whose fetched document
\* has a `result` has been answered with that result.
C21_Witness ==
    \E i \in Reqs :
        /\ reqs[i].pc = "done" /\ reqs[i].ret.kind = "ok" /\ reqs[i].fetches = 1
        /\ ObjResultUrl(reqs[i].chained) = ExternalUrl
        /\ reqs[i].fetched = JObj(JNum(9), Absent, Absent)
        /\ ObjResult(reqs[i].body) = JNum(9)

\* C22: per chained call the engine fetches a resultUrl at most once; a
\* resultUrl inside the fetched document is not followed.
C22_FetchAtMostOnce ==
    \A i \in Reqs :
        /\ reqs[i].fetches <= 1
        /\ reqs[i].fetched # NoBody => reqs[i].pc # "fetch"

\* A fetched document that itself carries a resultUrl, after one fetch.
C22_Witness ==
    \E i \in Reqs :
        /\ reqs[i].pc = "done" /\ reqs[i].fetches = 1
        /\ reqs[i].fetched # InvalidJson /\ reqs[i].fetched # NoBody
        /\ ObjResultUrl(reqs[i].fetched) # Absent

\* C23: nothing is retried: per request the Wasm function is called at most
\* once and the chained request is sent at most once, when they fail too.
C23_NoRetry ==
    \A i \in Reqs :
        /\ reqs[i].calls <= 1
        /\ SendAttempts(reqs[i]) <= 1

\* A request whose call trapped, and one whose chained request failed to
\* be sent, both finished.
C23_Witness ==
    /\ \E i \in Reqs : reqs[i].pc = "done" /\ reqs[i].trapped /\ reqs[i].calls = 1
    /\ \E i \in Reqs : reqs[i].pc = "done" /\ reqs[i].fault = "send"

\* C28: a request that is not chained, to an endpoint whose response is
\* application/json, is answered with the raw Wasm integer, a JSON number,
\* as the `result` of the response.
C28_ResultIsRawInteger ==
    \A i \in Reqs :
        LET r == reqs[i]
        IN  /\ r.pc = "done" /\ r.interpreted /\ r.next = None /\ ~r.trapped
            /\ EndpointOf(r.mod, r.fn).media = "application/json"
            => ObjResult(r.body) = r.raw_output

\* C27: request ids are unique: two entries that differ in deployment,
\* module, function or timestamp have different request ids (SHA-256 taken
\* as injective on its input).
C27_IdsUnique ==
    \A e1 \in ids.entries, e2 \in ids.entries :
        <<e1.dep, e1.mod, e1.fn, e1.time>> # <<e2.dep, e2.mod, e2.fn, e2.time>>
            => e1.request_id # e2.request_id

\* The properties of m_obj that are string/binary and have an encoding
\* entry; the ones whose entry also holds a contentType.
BinaryWithEntry(m_obj) ==
    { p \in DOMAIN m_obj.properties :
        /\ m_obj.properties[p].type = "string" /\ m_obj.properties[p].format = "binary"
        /\ p \in DOMAIN m_obj.encoding }

BinaryWithContentType(m_obj) ==
    { p \in BinaryWithEntry(m_obj) : m_obj.encoding[p] # NoneStr }

\* The list holds exactly one element per property of ps, with the entry's
\* contentType as media type, and nothing else.
MountsAre(mounts, m_obj, ps) ==
    /\ Len(mounts) = Cardinality(ps)
    /\ \A p \in ps : \E j \in DOMAIN mounts :
          mounts[j].path = p /\ mounts[j].media_type = m_obj.encoding[p]
    /\ \A j \in DOMAIN mounts : mounts[j].path \in ps

\* C30 as stated: for a multipart/form-data body a mount list is derived and
\* holds exactly one element per string/binary property that has an
\* encoding entry.
C30_OnePerBinaryWithEntry ==
    multipart.ret # Pending /\ multipart.m_obj.media_type = "multipart/form-data" =>
        /\ multipart.ret.kind = "ok"
        /\ MountsAre(multipart.ret.mounts, multipart.m_obj, BinaryWithEntry(multipart.m_obj))

\* C30: when the derivation succeeds (multipart/form-data, an object schema
\* with at least one property) the list holds exactly one element per
\* string/binary property whose encoding entry holds a contentType, with the
\* property name as path and that contentType as media type, and no element
\* for any other property; it fails exactly on another media type, another
\* schema type or an empty property map.
C30_OnePerBinaryWithContentType ==
    multipart.ret # Pending =>
        LET m == multipart.m_obj
        IN  /\ multipart.ret.kind = "ok" <=>
                 /\ m.media_type = "multipart/form-data"
                 /\ m.schema_type = "object"
                 /\ DOMAIN m.properties # {}
            /\ multipart.ret.kind = "ok" =>
                 MountsAre(multipart.ret.mounts, m, BinaryWithContentType(m))

\* A list derived from two binary properties with encoding entries, of
\* which one holds a contentType: one mount.
C30_Witness ==
    /\ multipart.ret # Pending /\ multipart.ret.kind = "ok"
    /\ Len(multipart.ret.mounts) = 1
    /\ Cardinality(BinaryWithEntry(multipart.m_obj)) = 2

\* The artifact the last load found was missing or older than the source.
MissingOrOlder(l) == l.serial_before = Missing \/ l.serial_before < l.source_mtime

\* C25 as stated: every load compiles exactly when the serialized artifact
\* is missing or older than the source.
C25_CompilesIffStale ==
    runtime.last.ret # "none" =>
        (runtime.last.compiled <=> MissingOrOlder(runtime.last))

\* C25: a load of a module name that the runtime has not loaded yet runs
\* the compiler exactly when the serialized artifact is missing or older
\* than the source; otherwise it deserializes the existing artifact without
\* compiling.  A load of a name that is already loaded never compiles,
\* however new the source is.
C25_CompilesIffStaleWhenNotLoaded ==
    LET l == runtime.last
    IN  l.ret # "none" =>
           /\ ~l.already => (l.compiled <=> MissingOrOlder(l))
           /\ ~l.already /\ ~l.compiled => l.deserialized
           /\ l.already => ~l.compiled /\ ~l.deserialized

\* A fresh runtime loaded a module whose source had been given a time in
\* the future, later than an existing artifact: the compiler ran again.
C25_Witness ==
    LET l == runtime.last
    IN  /\ l.ret = "ok" /\ ~l.already /\ l.compiled
        /\ l.serial_before # Missing
        /\ l.source_mtime > runtime.now

\* C26: loading a module whose name is already loaded succeeds and changes
\* nothing: the module map with its instances and the artifacts are as
\* before, nothing is compiled, deserialized or instantiated.
C26_Step ==
    \A name \in ModuleNames :
        LoadModule(name) /\ name \in DOMAIN runtime.modules =>
            /\ runtime'.last.ret = "ok"
            /\ runtime'.modules = runtime.modules
            /\ runtime'.instances = runtime.instances
            /\ runtime'.serial = runtime.serial
            /\ ~runtime'.last.compiled
            /\ ~runtime'.last.deserialized
            /\ ~runtime'.last.instantiated

C26_LoadedIsNoOp == [][C26_Step]_vars

\* A loaded module was loaded again while its source was newer than its
\* artifact.
C26_Witness ==
    /\ runtime.last.already
    /\ runtime.last.name \in DOMAIN runtime.modules
    /\ runtime.last.source_mtime > runtime.last.serial_before

\* The uploaders that staged their file under the path p.
StagedAt(p) == { c \in Uploaders : uploads[c].status = 200 /\ uploads[c].save_path = p }

\* C24: once concurrent uploads into one params directory are over, an
\* upload whose file name on disk no other upload used is on disk as it was
\* sent, and a file's content is the complete body of exactly one of the
\* uploads that were saved under its name.
C24_LastWriterWins ==
    (\A c \in Uploaders : uploads[c].pc = "done") =>
        \A c \in Uploaders :
            uploads[c].status = 200 =>
                /\ (\A o \in Uploaders \ {c} : uploads[o].save_path # uploads[c].save_path)
                       => params[uploads[c].save_path] = uploads[c].body
                /\ \E o \in StagedAt(uploads[c].save_path) :
                       params[uploads[c].save_path] = uploads[o].body

\* The URL names the file f of the executed function: three path segments
\* that decode to the deployment id, the module name and f.
UrlNames(url, f) ==
    LET seg == Segments(url[3])
    IN  /\ url[2] = "module_results"
        /\ Len(seg) = 3
        /\ urldecode(seg[1]) = Chars(outputs.dep)
        /\ urldecode(seg[2]) = Chars(outputs.mod)
        /\ urldecode(seg[3]) = Chars(f)

C31_ResultCount ==
    runtime.ran.name # "" =>
        /\ Len(runtime.ran.vals) = runtime.ran.returns
        /\ \A k \in 1..runtime.ran.returns :
              k > runtime.ran.filled => runtime.ran.vals[k] = 0

\* The loaded function with one result was asked for two: its value, then
\* zero.
C31_Witness ==
    /\ runtime.ran.name = "fibo" /\ runtime.ran.returns = 2
    /\ runtime.ran.filled = 1
    /\ runtime.ran.vals = <<7, 0>>

\* C32: a history query with an id is answered with the first entry of
\* that id, 200 if the entry is marked as succeeded and 500 if as failed,
\* and with 404 if no entry has the id; a query without id is answered 200
\* with all entries.
C32_Step ==
    \A id \in {"", "unknown"} \cup {e.request_id : e \in ids.entries} :
        QueryHistory(id) =>
            LET q == ids'.query
                matching == {k \in 1..Len(history) : history[k].request_id = id}
            IN  IF id = ""
                THEN /\ q.status = 200
                     /\ q.listed = [k \in 1..Len(history) |-> history[k].rid]
                ELSE IF matching = {}
                THEN q.status = 404 /\ q.listed = <<>>
                ELSE \E k \in matching :
                        /\ \A j \in matching : k <= j
                        /\ q.listed = <<history[k].rid>>
                        /\ q.status = IF history[k].success THEN 200 ELSE 500

C37_ResultUrlResolvesToOwnEntry ==
    \A e \in ids.entries :
        e.pc = "done" =>
            /\ e.result_url = ResultUrl(e.request_id)
            /\ request_history_list(e.result_url[3]).rid = e.rid

\* C38: when a chained call succeeds, the entry of the originating request
\* keeps the result and the outputs of its own function: no step after the
\* interpretation of its output changes them, and the entry pushed to the
\* history holds them, not the value returned to the caller.
C38_Step ==
    \A i \in Reqs :
        reqs[i].interpreted /\ reqs[i].next # None /\ reqs'[i].ret.kind # "err" =>
            /\ reqs'[i].entry.result = reqs[i].entry.result
            /\ reqs'[i].entry.outputs = reqs[i].entry.outputs
            /\ Len(history') > Len(history) /\ history'[Len(history')].rid = i =>
                  /\ history'[Len(history')].result = reqs[i].entry.result
                  /\ history'[Len(history')].outputs = reqs[i].entry.outputs

C38_EntryKeepsOwnResult == [][C38_Step]_vars

\* A request whose chained call succeeded is recorded with the text of its
\* own function's value, while its caller was handed the next hop's result.
C38_Witness ==
    \E k \in 1..Len(history) :
        LET r == reqs[history[k].rid]
        IN  /\ r.pc = "done" /\ r.sends = 1 /\ r.ret.kind = "ok"
            /\ history[k].success
            /\ history[k].result = JStr("7")
            /\ ObjResult(r.body) = JObj(JNum(5), Absent, Absent)

\* C33 as stated: every run request eventually completes, whatever the
\* interleaving of the concurrent requests and whichever worker threads
\* serve them, also when a request is suspended at an await while it holds
\* the DEPLOYMENTS mutex.
C33_EveryRequestCompletes ==
    \A i \in 1..MaxClients : (i \in Reqs) ~> (i \in Reqs /\ reqs[i].pc = "done")

\* The failure entry of request i: success = false, deployment not found.
FailureEntryOf(i) ==
    \E k \in 1..Len(history) :
        /\ history[k].rid = i
        /\ ~history[k].success
        /\ history[k].result = JStr("Deployment not found")

C36_NothingRemainsAfterDelete ==
    /\ admin.op = "delete" /\ admin.pc = "done" /\ admin.status = 200
    /\ \A i \in Reqs : reqs[i].pc = "done"
    => disk[admin.id] = NoFiles

\* C35 as stated: at every moment, also while a create and a delete of the
\* same id are served concurrently, every deployment in the registry has
\* its JSON document and its modules and params directories on disk.
C35_RegisteredHasFiles ==
    \A d \in deployments :
        disk[d].doc # "absent" /\ disk[d].modules /\ disk[d].params

\* C39 as stated: register requests with different valid URLs that are
\* served concurrently all succeed, none of them fails an assertion, and
\* once they are done the two variables stem from the same request: the
\* logging endpoint is the orchestrator URL followed by /device/logs.
C39_ConcurrentRegistrations ==
    (\A j, k \in Registrations :
         /\ UrlParses(env.regs[k].url)
         /\ j # k => env.regs[j].url # env.regs[k].url)
    => /\ \A k \in Registrations : ~env.regs[k].panicked
       /\ (Registrations # {} /\ \A k \in Registrations : env.regs[k].pc = "done")
             => /\ \A k \in Registrations : env.regs[k].status = 200
                /\ env.WASMIOT_LOGGING_ENDPOINT = logging_endpoint(env.WASMIOT_ORCHESTRATOR_URL)

\* No health check of the orchestrator has restarted the timer for longer
\* than the renewal time, and the advertising loop is running.
TimedOut ==
    /\ zeroconf.advertising = "polling"
    /\ zeroconf.time_since_last_register > zeroconf.register_renewal_time

====
